---- MODULE Spec2Model ----
(***************************************************************************)
(* Model of the Shopify -> Lightspeed order bridge.                        *)
(*                                                                         *)
(*   src/src/index.js (second program, lines 227-552): webhook intake,      *)
(*       the retry sweep, the in-memory audit log / failed list and the    *)
(*       Redis lists order_history / failed_queue;                         *)
(*   src/src/services/lightspeed.js: the credential pair, refresh, and the *)
(*       catalog / sale client;                                            *)
(*   src/unnamed/part_002 (second program, lines 501-623): the intake      *)
(*       variant with the ?manual=true signature bypass.                   *)
(*                                                                         *)
(* A handler is one action.  The remote platform's behaviour during one    *)
(* handler invocation is an input of the action (env); which access token  *)
(* the platform currently accepts is state.  Money is in cents.  The token *)
(* value 0 models null.  The durable store answers every call.  After a     *)
(* handler step the response is observable (lastReq, lastResp, calls)      *)
(* until Settle; the next request is sent after that.                      *)
(***************************************************************************)
EXTENDS Integers, Sequences, FiniteSets, TLC

----------------------------------------------------------------------------
(* Bounds *)

\* order identifiers are 1..MaxOrders
MaxOrders == 1
\* the remote token endpoint issues at most MaxTokens access tokens
MaxTokens == 3
\* a client call is followed for at most MaxAttempts requests to its endpoint
MaxAttempts == 3
\* the process is not restarted once order_history holds this many records
MaxHistory == 2
\* sales a direct createSale call is followed up to
MaxSales == 1
\* exchangeCodeForToken / refreshAccessToken calls followed await by await
MaxCalls == 2
\* webhook deliveries that are suspended at an await at the same time
MaxPending == 2
\* records in failed_queue when the process that drains it starts
MaxQueued == 12

----------------------------------------------------------------------------
(* Program constants *)

\* index.js:367  if (data.retryCount >= 5)
RetryCeiling == 5
\* index.js:362  redis.lrange('failed_queue', 0, 9)
SweepLast == 9

Undefined == "undefined"
NoResponse == [status |-> 0, body |-> ""]

----------------------------------------------------------------------------
(* Store configuration (process.env) *)

\* X-Shopify-Shop-Domain values a request may carry; "" is a missing header
Domains == {"", "store-a.example", "store-b.example", "other.example"}

\* <PREFIX>_WEBHOOK_SECRET of the store whose <PREFIX>_DOMAIN is d
\* ("" = not set; no _DOMAIN key has the value "other.example")
EnvWebhookSecret(d) ==
  CASE d = "store-a.example" -> "s3cr3t"
    [] d = "store-b.example" -> "b-secret"
    [] OTHER -> ""

\* <PREFIX>_LS_CUSTOMER of that store (store-b has none configured)
EnvLsCustomer(d) ==
  CASE d = "store-a.example" -> "7"
    [] OTHER -> ""

\* Number(lsCustomerID)
ToNumber(s) ==
  CASE s = "7" -> 7
    [] OTHER -> 0

\* crypto.createHmac("sha256", secret).update(rawBody).digest("base64"):
\* a value determined by, and determining, the key and the message
Hmac(secret, rawBody) == [key |-> secret, msg |-> rawBody]
\* no X-Shopify-Hmac-Sha256 header: req.get() returns undefined
NoSignature == [missing |-> TRUE]

----------------------------------------------------------------------------
(* Order payloads *)

OrderIds == 1..MaxOrders

Line(s, q, p) == [sku |-> s, quantity |-> q, price |-> p]

\* line_items of the payloads that are delivered (prices in cents): three
\* lines of which the second is not in the catalog; four lines of which none
\* resolves (no sku, empty sku, unknown sku, catalog record without itemID)
LineLists ==
  { << Line("A", 1, 1000), Line("X", 1, 300), Line(" B ", 3, 700) >>,
    << Line(Undefined, 1, 500), Line("", 1, 500), Line("X", 2, 300), Line("N", 1, 100) >> }

Orders == [id : OrderIds, line_items : LineLists]

\* the JSON string "k" as an order id, kept apart from the JSON number k: a
\* route parameter is always a string, the id of a Shopify payload a number
TextId(k) == 0 - k
TextIds == { TextId(k) : k \in OrderIds }
\* payloads whose id is a JSON string
TextOrders == [id : TextIds,
               line_items : { << Line("A", 1, 1000), Line("X", 1, 300), Line(" B ", 3, 700) >> }]

\* String.prototype.trim on the skus that occur; item.sku?.trim() keeps undefined
Trim(s) ==
  CASE s = " B " -> "B"
    [] OTHER -> s

\* !shopifySku
Falsy(s) == s = Undefined \/ s = ""

----------------------------------------------------------------------------
(* Remote catalog *)

\* the JSON values a cost field of an item can hold: a number or a numeric
\* string (both in thousandths of the currency unit, 4000 is 4.00), a string
\* that is no number, or nothing
Num(n) == [num |-> n]
Str(n) == [str |-> n]
Text == [text |-> "n/a"]
Missing == [missing |-> TRUE]

\* res.data.Item of GET Item.json?systemSku=...: sequence of matches; the
\* platform answers with an array (isArray) or a single object
CatalogBySku(sku) ==
  CASE sku = "A" -> [isArray |-> FALSE,
                     items |-> << [itemID |-> 55, avgCost |-> Num(4000), defaultCost |-> Num(0)] >>]
    [] sku = "B" -> [isArray |-> TRUE,
                     items |-> << [itemID |-> 56, avgCost |-> Num(0), defaultCost |-> Num(0)],
                                  [itemID |-> 57, avgCost |-> Num(1000), defaultCost |-> Num(0)] >>]
    [] sku = "N" -> [isArray |-> FALSE,
                     items |-> << [itemID |-> 0, avgCost |-> Num(0), defaultCost |-> Num(0)] >>]
    [] OTHER -> [isArray |-> FALSE, items |-> << >>]

\* itemRes.data.Item of GET Item/<itemID>.json
CatalogById(id) ==
  CASE id = 55 -> [itemID |-> 55, avgCost |-> Num(4000), defaultCost |-> Num(0)]
    [] id = 56 -> [itemID |-> 56, avgCost |-> Num(0), defaultCost |-> Num(0)]
    [] id = 60 -> [itemID |-> 60, avgCost |-> Missing, defaultCost |-> Num(1010)]
    [] id = 61 -> [itemID |-> 61, avgCost |-> Text, defaultCost |-> Missing]
    [] id = 62 -> [itemID |-> 62, avgCost |-> Num(0 - 4000), defaultCost |-> Missing]
    [] id = 63 -> [itemID |-> 63, avgCost |-> Num(3), defaultCost |-> Missing]
    [] id = 64 -> [itemID |-> 64, avgCost |-> Missing, defaultCost |-> Missing]
    [] id = 65 -> [itemID |-> 65, avgCost |-> Str(4000), defaultCost |-> Missing]
    [] OTHER -> [itemID |-> id, avgCost |-> Num(1000), defaultCost |-> Num(0)]

\* behaviour of the remote platform during one handler invocation
\*   auth:    "check" = a request is answered 401 iff its token is not the
\*            accepted one; "rejectAll" = every API request is answered 401;
\*            "rejectSale" = additionally to check, every Sale POST is 401
\*   sale:    outcome of an authorised Sale POST
\*   refresh: outcome of a refresh-token grant (the answer carries no new
\*            refresh token)
Envs == [auth : {"check", "rejectAll", "rejectSale"},
         sale : {"ok", "error"},
         refresh : {"ok", "fail"}]

----------------------------------------------------------------------------
VARIABLES
  processedOrders,   \* index.js:246  Set of order ids seen in this process
  orderLogs,         \* index.js:249  in-memory audit log
  failedOrders,      \* index.js:250  in-memory failed list
  order_history,     \* Redis list order_history (head first)
  failed_queue,      \* Redis list failed_queue (head first)
  accessToken,       \* lightspeed.js:33
  refreshToken,      \* lightspeed.js:34
  redisAvailable,    \* lightspeed.js:10
  lightspeed_tokens, \* Redis key lightspeed_tokens
  lsIssued,          \* remote: number of access tokens issued so far
  lsValid,           \* remote: the access token accepted now (0 = none)
  lsRefresh,         \* remote: the refresh token accepted now (0 = none)
  lsSales,           \* remote: the sales created, oldest first
  clock,             \* new Date(): ticks once per recorded intake
  lastReq,           \* the request handled by the last handler invocation
  lastResp,          \* its response (status 0: none was sent)
  calls,             \* the client calls it made, in order
  submits,           \* per order id: createSale calls made by sweeps
  sweepRunning,      \* a sweep was started and has not returned
  tokenCalls,        \* the exchangeCodeForToken / refreshAccessToken calls
                     \* that are followed await by await
  pending            \* the webhook deliveries suspended at their first await

progVars == << processedOrders, orderLogs, failedOrders, order_history, failed_queue >>
credVars == << accessToken, refreshToken, redisAvailable, lightspeed_tokens >>
remoteVars == << lsIssued, lsValid, lsRefresh, lsSales >>
obsVars == << clock, lastReq, lastResp, calls, submits, sweepRunning, pending >>
vars == << processedOrders, orderLogs, failedOrders, order_history, failed_queue,
           accessToken, refreshToken, redisAvailable, lightspeed_tokens,
           lsIssued, lsValid, lsRefresh, lsSales,
           clock, lastReq, lastResp, calls, submits, sweepRunning, tokenCalls,
           pending >>

----------------------------------------------------------------------------
(* JSON and Redis list commands *)

\* JSON.stringify of a product list: properties whose value is undefined are omitted
JsonProducts(ps) ==
  [i \in DOMAIN ps |->
     IF "sku" \in DOMAIN ps[i] /\ ps[i].sku = Undefined
     THEN [quantity |-> ps[i].quantity]
     ELSE ps[i]]

\* JSON.stringify(record)
Stringify(o) ==
  [json |-> IF "products" \in DOMAIN o
            THEN [o EXCEPT !.products = JsonProducts(o.products)]
            ELSE o]

\* JSON.parse succeeds on what JSON.stringify wrote
Parses(s) == "json" \in DOMAIN s
Parse(s) == s.json

LPush_Twice(list, v) == << v, v >> \o list

\* LPUSH key value
LPush(list, v) == << v >> \o list

LRange_None(list, stop) == << >>

\* LRANGE key 0 stop
LRange(list, stop) == SubSeq(list, 1, IF Len(list) < stop + 1 THEN Len(list) ELSE stop + 1)

LRem1_Keep(list, v) == list

\* LREM key 1 value: removes the first element equal to value
LRem1(list, v) ==
  IF \E i \in 1..Len(list) : list[i] = v
  THEN LET k == CHOOSE i \in 1..Len(list) :
                  list[i] = v /\ \A j \in 1..(i - 1) : list[j] # v
       IN SubSeq(list, 1, k - 1) \o SubSeq(list, k + 1, Len(list))
  ELSE list

LRemAll_ByOrderId(list, v) ==
  SelectSeq(list, LAMBDA x : x.json.shopifyOrderId # v.json.shopifyOrderId)

\* LREM key 0 value: removes every element equal to value
LRemAll(list, v) == SelectSeq(list, LAMBDA x : x # v)

\* obj.field of a parsed record; absent properties read as undefined
Has(o, f) == f \in DOMAIN o

----------------------------------------------------------------------------
(* src/src/services/lightspeed.js                                          *)
(*                                                                         *)
(* The client operators work on a record c of the credential and remote    *)
(* state they read and write:                                              *)
(*   accessToken, refreshToken, kv (the Redis key lightspeed_tokens),      *)
(*   issued, valid, rfr, sales (the remote platform)                       *)
(* and return the record after the call together with the call's outcome.  *)

NoKey == [absent |-> TRUE]

Cur == [accessToken |-> accessToken, refreshToken |-> refreshToken,
        kv |-> lightspeed_tokens,
        issued |-> lsIssued, valid |-> lsValid, rfr |-> lsRefresh,
        sales |-> lsSales]

TokenPayload_AccessOnly(a, r) == [json |-> [accessToken |-> a, refreshToken |-> 0]]

\* JSON.stringify({ accessToken, refreshToken })
TokenPayload(a, r) == [json |-> [accessToken |-> a, refreshToken |-> r]]

LoadTokens_Skip(c) == c

\* lightspeed.js:147  if (saved): the key exists and is not the empty string
Saved(v) == v # NoKey /\ v # [raw |-> ""]

\* lightspeed.js:150  tokens?.accessToken && tokens?.refreshToken
WellFormed(tokens) ==
  /\ Has(tokens, "accessToken") /\ tokens.accessToken # 0
  /\ Has(tokens, "refreshToken") /\ tokens.refreshToken # 0

DeleteKey_Keep(c) == c

\* lightspeed.js:158, 163  redis.del('lightspeed_tokens')
DeleteKey(c) == [c EXCEPT !.kv = NoKey]

\* lightspeed.js:138-168
LoadTokens(c) ==
  IF ~redisAvailable THEN c
  ELSE IF ~Saved(c.kv) THEN c
  ELSE IF Parses(c.kv) /\ WellFormed(Parse(c.kv))
       THEN [c EXCEPT !.accessToken = Parse(c.kv).accessToken,
                      !.refreshToken = Parse(c.kv).refreshToken]
       ELSE DeleteKey(c)

\* the token endpoint answers a refresh-token grant with a new access token
TokenEndpointGrants(c, env) ==
  /\ env.refresh # "fail"
  /\ c.refreshToken = c.rfr
  /\ c.issued < MaxTokens

NextRefreshToken_Always(supplied, previous) == supplied

\* lightspeed.js:114  res.data.refresh_token || refreshToken
NextRefreshToken(supplied, previous) == IF supplied # 0 THEN supplied ELSE previous

\* lightspeed.js:98-135  refreshAccessToken once the stored tokens were looked up
\* ok: returned normally; sent: a token request was sent
RequestRefresh(c1, env) ==
  IF c1.refreshToken = 0
  THEN [c |-> c1, ok |-> FALSE, sent |-> FALSE, err |-> "No refresh token available"]
  ELSE IF TokenEndpointGrants(c1, env)
       THEN LET new == c1.issued + 1
                \* res.data.refresh_token: absent (0) unless the platform rotates
                supplied == IF env.refresh = "okRotate" THEN new ELSE 0
                rt == NextRefreshToken(supplied, c1.refreshToken)
                c2 == [c1 EXCEPT !.issued = new, !.valid = new,
                                 !.rfr = IF supplied # 0 THEN supplied ELSE c1.rfr,
                                 !.accessToken = new, !.refreshToken = rt]
            IN [c |-> IF redisAvailable
                      THEN [c2 EXCEPT !.kv = TokenPayload(new, rt)]
                      ELSE c2,
                ok |-> TRUE, sent |-> TRUE, err |-> ""]
       ELSE [c |-> c1, ok |-> FALSE, sent |-> TRUE, err |-> "refresh failed"]

\* lightspeed.js:89-136  refreshAccessToken
RefreshAccessToken(c, env) ==
  RequestRefresh(IF c.refreshToken = 0 THEN LoadTokens(c) ELSE c, env)

HasValidToken_Always(c) == TRUE

\* lightspeed.js:177-179
HasValidToken(c) == c.accessToken # 0

\* the platform answers an API request carrying this credential with 401
Unauthorized(c, env, isSalePost) ==
  \/ env.auth = "rejectAll"
  \/ env.auth = "rejectSale" /\ isSalePost
  \/ c.accessToken # c.valid

\* counters of one client call
\*   requests: requests sent to the call's endpoint (Item.json / Sale.json)
\*   unauthorized: how many of them were answered 401
\*   fetches: item re-fetches (Item/<id>.json) sent by createSale
\*   refreshes: refreshAccessToken calls; refreshOk: those that returned
NoStat == [requests |-> 0, unauthorized |-> 0, fetches |-> 0, refreshes |-> 0, refreshOk |-> 0]
AddStat(s, t) == [requests |-> s.requests + t.requests,
                  unauthorized |-> s.unauthorized + t.unauthorized,
                  fetches |-> s.fetches + t.fetches,
                  refreshes |-> s.refreshes + t.refreshes,
                  refreshOk |-> s.refreshOk + t.refreshOk]

\* lightspeed.js:205-210  a 401 is answered by a refresh and a retry of the call
RetryAfter401(attempt) == TRUE

\* lightspeed.js:185-214  getItemBySystemSku
\* attempt: number of requests this call has already sent.
\* result: "ok" (value = the itemID found), "error" (err = the error thrown),
\* "looping" (MaxAttempts requests were answered 401 and the call goes on
\* refreshing and retrying; it is followed no further)
RECURSIVE GetItemBySystemSku(_, _, _, _)

\* the outcome n of the retried call, with the requests sent before it
WithStat(n, st) == [n EXCEPT !.stat = AddStat(st, n.stat)]

\* lightspeed.js:208-209  r: the outcome of refreshAccessToken()
ItemRetry(r, sent, systemSku, env, attempt) ==
  LET st == [sent EXCEPT !.refreshes = 1, !.refreshOk = IF r.ok THEN 1 ELSE 0]
  IN IF ~r.ok
     THEN [c |-> r.c, result |-> "error", err |-> r.err, value |-> 0, stat |-> st]
     ELSE WithStat(GetItemBySystemSku(r.c, systemSku, env, attempt + 1), st)

GetItemBySystemSku(c, systemSku, env, attempt) ==
  IF Falsy(systemSku)
  THEN [c |-> c, result |-> "error", err |-> "No SKU provided", value |-> 0, stat |-> NoStat]
  ELSE IF ~HasValidToken(c)
  THEN \* authHeader() throws inside the try; no response, so it is rethrown
       [c |-> c, result |-> "error", err |-> "Lightspeed token missing", value |-> 0, stat |-> NoStat]
  ELSE IF Unauthorized(c, env, FALSE)
  THEN LET sent == [NoStat EXCEPT !.requests = 1, !.unauthorized = 1]
       IN IF ~RetryAfter401(attempt)
          THEN [c |-> c, result |-> "error", err |-> "401", value |-> 0, stat |-> sent]
          ELSE IF attempt + 1 >= MaxAttempts
          THEN [c |-> c, result |-> "looping", err |-> "", value |-> 0, stat |-> sent]
          ELSE ItemRetry(RefreshAccessToken(c, env), sent, systemSku, env, attempt)
  ELSE LET data == CatalogBySku(Trim(systemSku))
           sent == [NoStat EXCEPT !.requests = 1]
       IN \* if (Array.isArray(item)) item = item[0];  if (!item || !item.itemID) throw
          IF Len(data.items) = 0 \/ data.items[1].itemID = 0
          THEN [c |-> c, result |-> "error", err |-> "Item not found", value |-> 0, stat |-> sent]
          ELSE [c |-> c, result |-> "ok", err |-> "", value |-> data.items[1].itemID, stat |-> sent]

\* the saleLines argument of createSale: a list, or undefined
Lines(l) == [defined |-> TRUE, lines |-> l]
NoLines == [defined |-> FALSE, lines |-> << >>]

\* a value that is truthy in `item.avgCost || item.defaultCost || 0`
Truthy(v) ==
  CASE "num" \in DOMAIN v -> v.num # 0
    [] "str" \in DOMAIN v -> TRUE
    [] "text" \in DOMAIN v -> TRUE
    [] OTHER -> FALSE

\* parseFloat(v): nan, or the number n in thousandths
ParseFloat(v) ==
  CASE "num" \in DOMAIN v -> [nan |-> FALSE, n |-> v.num]
    [] "str" \in DOMAIN v -> [nan |-> FALSE, n |-> v.str]
    [] OTHER -> [nan |-> TRUE, n |-> 0]

FulfillmentPrice_CallerPrice(item, line) == line.unitPrice

\* lightspeed.js:228-235  the unit price submitted for a line, in cents:
\* parseFloat((avgCost / 0.80).toFixed(2)), or the caller's price when that
\* is not a positive number
FulfillmentPrice(item, line) ==
  LET avgCost == ParseFloat(IF Truthy(item.avgCost) THEN item.avgCost
                            ELSE IF Truthy(item.defaultCost) THEN item.defaultCost
                            ELSE Num(0))
      \* (avgCost / 0.80).toFixed(2): thousandths / 8, to the nearest cent
      price == (avgCost.n + 4) \div 8
  IN IF avgCost.nan \/ price <= 0 THEN line.unitPrice ELSE price

\* lightspeed.js:221-244  formattedLines
FormattedLines(saleLines) ==
  [i \in DOMAIN saleLines |->
     [itemID |-> saleLines[i].itemID,
      unitQuantity |-> saleLines[i].quantity,
      unitPrice |-> FulfillmentPrice(CatalogById(saleLines[i].itemID), saleLines[i])]]

RECURSIVE Subtotal(_)
\* lightspeed.js:246
Subtotal(fl) ==
  IF fl = << >> THEN 0
  ELSE fl[1].unitPrice * fl[1].unitQuantity + Subtotal(Tail(fl))

TotalWithTax_NoTax(subtotal) == subtotal

\* lightspeed.js:247-248  (subtotal * (1 + taxRate)).toFixed(2), in cents
TotalWithTax(subtotal) == (subtotal * 107 + 50) \div 100

\* lightspeed.js:250-265
SalePayload(fl, customerID) ==
  [customerID |-> customerID, completed |-> TRUE, enablePromotions |-> FALSE,
   SaleLines |-> fl, amount |-> TotalWithTax(Subtotal(fl))]

\* lightspeed.js:216-287  createSale
\* attempt: number of Sale POSTs this call has already sent.
RECURSIVE CreateSale(_, _, _, _, _)

\* lightspeed.js:281-282  r: the outcome of refreshAccessToken()
SaleRetry(r, sent, saleLines, customerID, env, attempt) ==
  LET st == [sent EXCEPT !.refreshes = 1, !.refreshOk = IF r.ok THEN 1 ELSE 0]
  IN IF ~r.ok
     THEN [c |-> r.c, result |-> "error", err |-> r.err, value |-> 0, stat |-> st]
     ELSE WithStat(CreateSale(r.c, saleLines, customerID, env, attempt + 1), st)

CreateSale(c, saleLines, customerID, env, attempt) ==
  IF customerID = 0
  THEN [c |-> c, result |-> "error", err |-> "Customer ID required", value |-> 0, stat |-> NoStat]
  ELSE IF ~saleLines.defined
  THEN \* for (const line of undefined)
       [c |-> c, result |-> "error", err |-> "saleLines is not iterable", value |-> 0, stat |-> NoStat]
  ELSE IF ~HasValidToken(c)
  THEN \* authHeader() throws: at the first re-fetch, or inside the try of the POST
       [c |-> c, result |-> "error", err |-> "Lightspeed token missing", value |-> 0, stat |-> NoStat]
  ELSE IF Len(saleLines.lines) > 0 /\ Unauthorized(c, env, FALSE)
  THEN \* the re-fetch is outside the try: its 401 leaves createSale at once
       [c |-> c, result |-> "error", err |-> "401", value |-> 0,
        stat |-> [NoStat EXCEPT !.fetches = 1]]
  ELSE
    LET fl == FormattedLines(saleLines.lines)
        fetched == [NoStat EXCEPT !.fetches = Len(fl), !.requests = 1]
    IN IF Unauthorized(c, env, TRUE)
       THEN LET sent == [fetched EXCEPT !.unauthorized = 1]
            IN IF ~RetryAfter401(attempt)
               THEN [c |-> c, result |-> "error", err |-> "401", value |-> 0, stat |-> sent]
               ELSE IF attempt + 1 >= MaxAttempts
               THEN [c |-> c, result |-> "looping", err |-> "", value |-> 0, stat |-> sent]
               ELSE SaleRetry(RefreshAccessToken(c, env), sent, saleLines, customerID,
                              env, attempt)
       ELSE IF env.sale = "error"
       THEN [c |-> c, result |-> "error", err |-> "remote error", value |-> 0, stat |-> fetched]
       ELSE LET id == Len(c.sales) + 1
                sale == [saleID |-> id] @@ SalePayload(fl, customerID)
            IN [c |-> [c EXCEPT !.sales = Append(c.sales, sale)],
                result |-> "ok", err |-> "", value |-> id, stat |-> fetched]

----------------------------------------------------------------------------
(* src/src/index.js: POST /webhooks/orders-create                          *)

\* the record of a client call kept in calls
LookupCall(sku, r) ==
  [fn |-> "getItemBySystemSku", sku |-> sku, result |-> r.result, err |-> r.err, stat |-> r.stat]
SaleCall(saleLines, customerID, r) ==
  [fn |-> "createSale", saleLines |-> saleLines, customerID |-> customerID,
   result |-> r.result, err |-> r.err, stat |-> r.stat]

\* index.js:417-425  the store lookup found a secret and a customer id
KnownStore(shopDomain) ==
  EnvWebhookSecret(shopDomain) # "" /\ EnvLsCustomer(shopDomain) # ""

HmacMismatch_Off(req) == FALSE

\* index.js:428-440  calculatedHmac !== shopifyHmac
HmacMismatch(req) ==
  Hmac(EnvWebhookSecret(req.domain), req.order) # req.sig

\* part_002:520-527  the variant with the manual-test flag skips the check
HmacMismatchManual(req) ==
  ~req.manual /\ HmacMismatch(req)

Admit_Later(seen, order) == seen

\* index.js:446  processedOrders.add(order.id)
Admit(seen, order) == seen \cup {order.id}

IsDuplicate_Never(seen, order) == FALSE

\* index.js:445  processedOrders.has(order.id)
IsDuplicate(seen, order) == order.id \in seen

NoSyncableItems_Off(saleLines) == FALSE

\* index.js:491  saleLines.length === 0
NoSyncableItems(saleLines) == saleLines = << >>

\* index.js:456 / 532  order.line_items?.map(i => ({ sku: i.sku?.trim(), quantity: i.quantity })) || []
ProductsOf(order) ==
  [i \in DOMAIN order.line_items |->
     [sku |-> Trim(order.line_items[i].sku), quantity |-> order.line_items[i].quantity]]

\* index.js:450-461
SkipInfo(order, shopDomain, lsCustomerID, now) ==
  [shopifyOrderId |-> order.id, shopDomain |-> shopDomain, lsCustomerID |-> lsCustomerID,
   timestamp |-> now, status |-> "skipped", products |-> ProductsOf(order),
   errorMessage |-> "Lightspeed token not ready",
   errorDetails |-> "Token expired or missing",
   retryCount |-> 0, saleLines |-> << >>]

\* index.js:501-509
SuccessLog(order, shopDomain, lsCustomerID, now, products, saleID) ==
  [shopifyOrderId |-> order.id, shopDomain |-> shopDomain, lsCustomerID |-> lsCustomerID,
   timestamp |-> now, status |-> "success", products |-> products, lsSaleID |-> saleID]

\* err.response?.data || err.stack || err.toString()
ErrorDetails(err) ==
  IF err \in {"401", "remote error"} THEN "response body" ELSE "stack"

\* index.js:516-524
ErrorInfo(order, shopDomain, lsCustomerID, now, err) ==
  [shopifyOrderId |-> order.id, shopDomain |-> shopDomain, lsCustomerID |-> lsCustomerID,
   timestamp |-> now, errorMessage |-> err, errorDetails |-> ErrorDetails(err),
   lineItemsCount |-> Len(order.line_items)]

\* index.js:526-535
FailedLog(order, shopDomain, lsCustomerID, now, err) ==
  [shopifyOrderId |-> order.id, shopDomain |-> shopDomain, lsCustomerID |-> lsCustomerID,
   timestamp |-> now, status |-> "failed", products |-> ProductsOf(order),
   errorMessage |-> err, errorDetails |-> ErrorDetails(err)]

\* index.js:476-477  if (!shopifySku) continue
SkipLine(item) == Falsy(Trim(item.sku))

OnLookupError_Rethrow(m, r) == [m EXCEPT !.state = "threw", !.err = r.err]

\* index.js:486-488  catch (lookupErr): a warning is logged and the loop goes on
OnLookupError(m, r) == m

\* index.js:473-489  the loop over order.line_items
\* m: [c, saleLines, products, calls, state], state "mapping" while the loop
\* runs, "hung" when a lookup does not return, "threw" when a lookup error
\* leaves the loop
RECURSIVE MapLines(_, _, _)

\* index.js:479-488  r: the outcome of getItemBySystemSku(shopifySku)
MapLine(m, item, shopifySku, r, rest, env) ==
  LET m1 == [m EXCEPT !.c = r.c,
                      !.calls = Append(m.calls, LookupCall(shopifySku, r))]
  IN CASE r.result = "ok" ->
            MapLines([m1 EXCEPT
                        !.saleLines = Append(m.saleLines,
                           [itemID |-> r.value, quantity |-> item.quantity,
                            unitPrice |-> item.price]),
                        !.products = Append(m.products,
                           [sku |-> shopifySku, quantity |-> item.quantity])],
                     rest, env)
       [] r.result = "looping" -> [m1 EXCEPT !.state = "hung"]
       [] OTHER -> MapLines(OnLookupError(m1, r), rest, env)

MapLines(m, items, env) ==
  IF items = << >> \/ m.state # "mapping" THEN m
  ELSE LET item == Head(items)
           shopifySku == Trim(item.sku)
       IN IF SkipLine(item) THEN MapLines(m, Tail(items), env)
          ELSE MapLine(m, item, shopifySku, GetItemBySystemSku(m.c, shopifySku, env, 0),
                       Tail(items), env)

\* the program, credential and remote state as one record
\* redisUp: the Redis database answers the calls of this invocation
\* hung: the invocation ends, or goes on for ever, without sending a response
State == [processedOrders |-> processedOrders, orderLogs |-> orderLogs,
          failedOrders |-> failedOrders, order_history |-> order_history,
          failed_queue |-> failed_queue, c |-> Cur, clock |-> clock,
          submits |-> submits, calls |-> << >>, resp |-> NoResponse, hung |-> FALSE,
          redisUp |-> TRUE]

\* a rejected promise leaves the async handler: express sends no response
Rejected(st) == [st EXCEPT !.hung = TRUE]

Respond(st, status, body) == [st EXCEPT !.resp = [status |-> status, body |-> body]]

\* index.js:515-545  the catch branch of the handler
IntakeCatch(st, order, shopDomain, lsCustomerID, err) ==
  LET now == st.clock + 1
      errorInfo == ErrorInfo(order, shopDomain, lsCustomerID, now, err)
      st1 == [st EXCEPT
                !.clock = now,
                !.failedOrders = Append(st.failedOrders, errorInfo),
                !.orderLogs = Append(st.orderLogs,
                                     FailedLog(order, shopDomain, lsCustomerID, now, err))]
  IN IF ~st.redisUp
     THEN \* index.js:538  redis.lpush rejects inside the catch block
          Rejected(st1)
     ELSE Respond([st1 EXCEPT
                     !.order_history = LPush(st.order_history, Stringify(errorInfo)),
                     !.failed_queue = LPush(st.failed_queue, Stringify(errorInfo))],
                  500, "Internal Server Error")

\* index.js:500-513  r: the outcome of createSale; st1: the state it was called in
IntakeSubmitted(st, st1, order, shopDomain, lsCustomerID, m, r) ==
  LET st2 == [st1 EXCEPT
                !.c = r.c,
                !.calls = Append(m.calls,
                                 SaleCall(Lines(m.saleLines), ToNumber(lsCustomerID), r))]
  IN CASE r.result = "looping" -> [st2 EXCEPT !.hung = TRUE]
       [] r.result = "ok" ->
            LET now == st.clock + 1
                successLog == SuccessLog(order, shopDomain, lsCustomerID, now,
                                         m.products, r.value)
                st3 == [st2 EXCEPT !.clock = now,
                                   !.orderLogs = Append(st.orderLogs, successLog)]
            IN IF ~st.redisUp
               THEN \* index.js:511  redis.lpush rejects inside the try block
                    IntakeCatch(st3, order, shopDomain, lsCustomerID, "Redis unreachable")
               ELSE Respond([st3 EXCEPT
                               !.order_history = LPush(st.order_history,
                                                       Stringify(successLog))],
                            200, "OK")
       [] OTHER ->
            IntakeCatch(st2, order, shopDomain, lsCustomerID, r.err)

\* index.js:491-498  m: the outcome of the loop over order.line_items
IntakeMapped(st, order, shopDomain, lsCustomerID, env, m) ==
  LET st1 == [st EXCEPT !.c = m.c, !.calls = m.calls]
  IN CASE m.state = "hung" -> [st1 EXCEPT !.hung = TRUE]
       [] m.state = "threw" ->
            IntakeCatch(st1, order, shopDomain, lsCustomerID, m.err)
       [] NoSyncableItems(m.saleLines) -> Respond(st1, 200, "OK - No syncable items")
       [] OTHER ->
            IntakeSubmitted(st, st1, order, shopDomain, lsCustomerID, m,
                            CreateSale(m.c, Lines(m.saleLines), ToNumber(lsCustomerID),
                                       env, 0))

\* index.js:448-546  the handler after deduplication
IntakeProcess(st, order, shopDomain, lsCustomerID, env) ==
  IF ~HasValidToken(st.c)
  THEN LET skipInfo == SkipInfo(order, shopDomain, lsCustomerID, st.clock + 1)
           st1 == [st EXCEPT !.clock = st.clock + 1,
                             !.orderLogs = Append(st.orderLogs, skipInfo)]
       IN IF ~st.redisUp
          THEN \* index.js:464  redis.lpush rejects outside any try block
               Rejected(st1)
          ELSE Respond([st1 EXCEPT
                          !.order_history = LPush(st.order_history, Stringify(skipInfo)),
                          !.failed_queue = LPush(st.failed_queue, Stringify(skipInfo))],
                       200, "OK")
  ELSE
    IntakeMapped(st, order, shopDomain, lsCustomerID, env,
                 MapLines([c |-> st.c, saleLines |-> << >>, products |-> << >>,
                           calls |-> << >>, state |-> "mapping", err |-> ""],
                          order.line_items, env))

\* index.js:410-546  POST /webhooks/orders-create
\* mismatch: the signature check of the variant (HmacMismatch / HmacMismatchManual)
Intake(st, req, env, mismatch) ==
  IF req.domain = "" THEN Respond(st, 400, "Missing shop domain")
  ELSE IF ~KnownStore(req.domain) THEN Respond(st, 401, "Unauthorized - unknown store")
  ELSE IF mismatch THEN Respond(st, 401, "Unauthorized")
  ELSE IF IsDuplicate(st.processedOrders, req.order) THEN Respond(st, 200, "OK")
  ELSE IntakeProcess([st EXCEPT !.processedOrders = Admit(st.processedOrders, req.order)],
                     req.order, req.domain, EnvLsCustomer(req.domain), env)

\* index.js:410-464, 473-479  the handler up to its first await: it answers,
\* or it is suspended at redis.lpush (no token) or at the first item lookup
IntakeArrives(st, req, env, mismatch) ==
  IF \/ req.domain = "" \/ ~KnownStore(req.domain) \/ mismatch
     \/ IsDuplicate(st.processedOrders, req.order)
     \/ (HasValidToken(st.c) /\ \A i \in 1..Len(req.order.line_items) :
                                  SkipLine(req.order.line_items[i]))
  THEN Intake(st, req, env, mismatch)
  ELSE LET st1 == [st EXCEPT !.processedOrders = Admit(st.processedOrders, req.order)]
       IN IF ~HasValidToken(st.c)
          THEN [st1 EXCEPT !.clock = st.clock + 1,
                           !.orderLogs = Append(st.orderLogs,
                                            SkipInfo(req.order, req.domain,
                                                     EnvLsCustomer(req.domain),
                                                     st.clock + 1))]
          ELSE st1

\* the record of a delivery that IntakeArrives left suspended in state st
Suspended(st, req, env) ==
  [req |-> req, env |-> env,
   at |-> IF HasValidToken(st.c) THEN "lookup" ELSE "lpush",
   now |-> st.clock]

\* index.js:464-467, 479-545  the handler from its first await on
IntakeResumes(st, d) ==
  IF d.at = "lpush"
  THEN LET skipInfo == SkipInfo(d.req.order, d.req.domain, EnvLsCustomer(d.req.domain), d.now)
       IN Respond([st EXCEPT
                     !.order_history = LPush(st.order_history, Stringify(skipInfo)),
                     !.failed_queue = LPush(st.failed_queue, Stringify(skipInfo))],
                  200, "OK")
  ELSE IntakeMapped(st, d.req.order, d.req.domain, EnvLsCustomer(d.req.domain), d.env,
                    MapLines([c |-> st.c, saleLines |-> << >>, products |-> << >>,
                              calls |-> << >>, state |-> "mapping", err |-> ""],
                             d.req.order.line_items, d.env))

----------------------------------------------------------------------------
(* src/src/index.js: GET /cron/retry-failed                                *)

\* `retrying (${data.retryCount}/5)`
RetryingStatus(n) ==
  CASE n = 1 -> "retrying (1/5)"
    [] n = 2 -> "retrying (2/5)"
    [] n = 3 -> "retrying (3/5)"
    [] n = 4 -> "retrying (4/5)"
    [] n = 5 -> "retrying (5/5)"
    [] OTHER -> "retrying (n/5)"

CeilingReached_OffByOne(data) == Has(data, "retryCount") /\ data.retryCount > RetryCeiling

\* index.js:367  data.retryCount >= 5  (undefined >= 5 is false)
CeilingReached(data) == Has(data, "retryCount") /\ data.retryCount >= RetryCeiling

NextRetryCount_Same(data) == IF Has(data, "retryCount") THEN data.retryCount ELSE 0

\* index.js:387  (data.retryCount || 0) + 1
NextRetryCount(data) == (IF Has(data, "retryCount") THEN data.retryCount ELSE 0) + 1

SetLogStatus_Replace(logs, id, status) ==
  SelectSeq(logs, LAMBDA o : o.shopifyOrderId # id)
    \o << [shopifyOrderId |-> id, status |-> status] >>

\* index.js:370-371  const log = orderLogs.find(...); if (log) log.status = status
SetLogStatus(logs, id, status) ==
  IF \E i \in 1..Len(logs) : logs[i].shopifyOrderId = id
  THEN LET k == CHOOSE i \in 1..Len(logs) :
                  logs[i].shopifyOrderId = id /\ \A j \in 1..(i - 1) : logs[j].shopifyOrderId # id
       IN [logs EXCEPT ![k] = [status |-> status] @@ logs[k]]
  ELSE logs

\* index.js:377  saleLines: data.saleLines
SavedLines(data) == IF Has(data, "saleLines") THEN Lines(data.saleLines) ELSE NoLines

\* index.js:365-393  the loop over the records read by LRANGE
RECURSIVE SweepItems(_, _, _)

\* index.js:375-392  r: the outcome of createSale for the record data
SweepSubmitted(st, item, data, r, rest, env) ==
  LET id == data.shopifyOrderId
      st1 == [st EXCEPT
                !.c = r.c,
                !.submits[id] = @ + 1,
                !.calls = Append(st.calls,
                                 SaleCall(SavedLines(data), ToNumber(data.lsCustomerID), r))]
  IN CASE r.result = "looping" -> [st1 EXCEPT !.hung = TRUE]
       [] r.result = "ok" ->
            SweepItems([st1 EXCEPT
                          !.failed_queue = LRem1(st.failed_queue, item),
                          !.failedOrders = SelectSeq(st.failedOrders,
                                             LAMBDA f : f.shopifyOrderId # id),
                          !.orderLogs = SetLogStatus(st.orderLogs, id,
                                                     "success (auto-retried)")],
                       rest, env)
       [] OTHER ->
            LET n == NextRetryCount(data)
                data1 == [retryCount |-> n] @@ data
            IN SweepItems([st1 EXCEPT
                             !.failed_queue = LPush(LRem1(st.failed_queue, item),
                                                    Stringify(data1)),
                             !.orderLogs = SetLogStatus(st.orderLogs, id,
                                                        RetryingStatus(n))],
                          rest, env)

SweepItems(st, queued, env) ==
  IF queued = << >> \/ st.hung \/ st.resp # NoResponse THEN st
  ELSE
    LET item == Head(queued)
    IN IF ~Parses(item)
       THEN \* JSON.parse throws: the outer catch answers
            Respond(st, 500, "Retry failed")
       ELSE
         LET data == Parse(item)
             id == data.shopifyOrderId
         IN IF CeilingReached(data)
            THEN SweepItems([st EXCEPT
                               !.failed_queue = LRem1(st.failed_queue, item),
                               !.orderLogs = SetLogStatus(st.orderLogs, id,
                                                          "permanent fail (max retries)")],
                            Tail(queued), env)
            ELSE SweepSubmitted(st, item, data,
                                CreateSale(st.c, SavedLines(data),
                                           ToNumber(data.lsCustomerID), env, 0),
                                Tail(queued), env)

\* index.js:395  st1: the state the loop ended in
SweepEnd(st1) ==
  IF st1.hung \/ st1.resp # NoResponse THEN st1
  ELSE Respond(st1, 200, "Processed queued retries")

\* index.js:362, 396-399  redis.lrange rejects: the catch of the handler answers
RetryFailedUnreachable(st) == Respond(st, 500, "Retry failed")

\* index.js:360-400  GET /cron/retry-failed
RetryFailed(st, env) ==
  LET queued == LRange(st.failed_queue, SweepLast)
  IN IF Len(queued) = 0 THEN Respond(st, 200, "No queued orders to retry")
     ELSE SweepEnd(SweepItems(st, queued, env))

----------------------------------------------------------------------------
(* src/src/index.js: POST /resync/:orderId                                 *)

\* index.js:322  f.shopifyOrderId === orderId (no conversion: a number never
\* equals a string)
StrictEquals(a, b) == a = b

\* index.js:322  failedOrders.find(...): the position of the entry found, 0 if none
FindFailed(list, orderId) ==
  IF \E i \in 1..Len(list) : StrictEquals(list[i].shopifyOrderId, orderId)
  THEN CHOOSE i \in 1..Len(list) :
         /\ StrictEquals(list[i].shopifyOrderId, orderId)
         /\ \A j \in 1..(i - 1) : ~StrictEquals(list[j].shopifyOrderId, orderId)
  ELSE 0

\* index.js:327  failed.saleLines || []
ResyncLines(failed) == Lines(IF Has(failed, "saleLines") THEN failed.saleLines ELSE << >>)

\* index.js:332  failedOrders.splice(failedOrders.indexOf(failed), 1)
Splice(list, k) == SubSeq(list, 1, k - 1) \o SubSeq(list, k + 1, Len(list))

\* index.js:332-339  r: the outcome of createSale for the entry failed at position k
ResyncSubmitted(st, orderId, failed, k, r) ==
  LET st1 == [st EXCEPT
                !.c = r.c,
                !.calls = << SaleCall(ResyncLines(failed), ToNumber(failed.lsCustomerID), r) >>]
  IN CASE r.result = "looping" -> [st1 EXCEPT !.hung = TRUE]
       [] r.result = "ok" ->
            Respond([st1 EXCEPT
                       !.failedOrders = Splice(st.failedOrders, k),
                       !.failed_queue = LRemAll(st.failed_queue, Stringify(failed)),
                       !.orderLogs = SetLogStatus(st.orderLogs, orderId,
                                                  "success (manual retry)")],
                    200, "Re-sync successful")
       [] OTHER -> Respond(st1, 500, "Re-sync failed")

\* index.js:320-341  POST /resync/:orderId
Resync(st, orderId, env) ==
  IF FindFailed(st.failedOrders, orderId) = 0
  THEN Respond(st, 404, "Order not found in failed list")
  ELSE ResyncSubmitted(st, orderId,
                       st.failedOrders[FindFailed(st.failedOrders, orderId)],
                       FindFailed(st.failedOrders, orderId),
                       CreateSale(st.c,
                                  ResyncLines(st.failedOrders[FindFailed(st.failedOrders, orderId)]),
                                  ToNumber(st.failedOrders[FindFailed(st.failedOrders,
                                                                      orderId)].lsCustomerID),
                                  env, 0))

----------------------------------------------------------------------------
(* Requests *)

\* deliveries of an order by store-a.example, correctly signed
GoodRequests ==
  { [domain |-> "store-a.example", sig |-> Hmac("s3cr3t", o), manual |-> FALSE, order |-> o] :
      o \in Orders }

\* deliveries by store-a.example, correctly signed, of payloads with a string id
TextRequests ==
  { [domain |-> "store-a.example", sig |-> Hmac("s3cr3t", o), manual |-> FALSE, order |-> o] :
      o \in TextOrders }

\* the delivery that the rejected requests alter
ProbeOrder == [id |-> 1, line_items |-> << Line("A", 2, 1000) >>]

\* deliveries without a domain header, from a store without a customer id,
\* from an unknown store, without signature, signed with another key, or
\* signed for another body
BadRequests ==
  { [domain |-> d, sig |-> Hmac("s3cr3t", ProbeOrder), manual |-> FALSE, order |-> ProbeOrder] :
      d \in Domains \ {"store-a.example"} }
  \cup
  { [domain |-> "store-a.example", sig |-> g, manual |-> FALSE, order |-> ProbeOrder] :
      g \in {NoSignature, Hmac("b-secret", ProbeOrder),
             Hmac("s3cr3t", [ProbeOrder EXCEPT !.line_items = << >>])} }

Requests == GoodRequests \cup BadRequests

\* the same deliveries with and without ?manual=true
Manual(reqs) == { [r EXCEPT !.manual = b] : r \in reqs, b \in BOOLEAN }

----------------------------------------------------------------------------
(* Actions *)

\* no request is being observed
Idle == [op |-> "idle"]

\* a platform behaviour for invocations that make no remote call
QuietEnv == [auth |-> "check", sale |-> "ok", refresh |-> "ok"]

\* the state after a handler invocation that handled rq and ended in st
Apply(st, rq) ==
  /\ processedOrders' = st.processedOrders
  /\ orderLogs' = st.orderLogs
  /\ failedOrders' = st.failedOrders
  /\ order_history' = st.order_history
  /\ failed_queue' = st.failed_queue
  /\ accessToken' = st.c.accessToken
  /\ refreshToken' = st.c.refreshToken
  /\ lightspeed_tokens' = st.c.kv
  /\ lsIssued' = st.c.issued
  /\ lsValid' = st.c.valid
  /\ lsRefresh' = st.c.rfr
  /\ lsSales' = st.c.sales
  /\ clock' = st.clock
  /\ submits' = st.submits
  /\ calls' = st.calls
  /\ lastResp' = st.resp
  /\ lastReq' = rq
  /\ UNCHANGED << redisAvailable, tokenCalls >>

\* POST /webhooks/orders-create (index.js:410-546)
WebhookOrdersCreate ==
  /\ lastReq = Idle
  /\ \E d \in (BadRequests \X {QuietEnv}) \cup (GoodRequests \X Envs) :
       Apply(Intake(State, d[1], d[2], HmacMismatch(d[1])), [op |-> "webhook", req |-> d[1]])
  /\ UNCHANGED << sweepRunning, pending >>

\* POST /webhooks/orders-create (part_002:501-623)
WebhookOrdersCreateManual ==
  /\ lastReq = Idle
  /\ \E d \in (Manual(BadRequests) \X {QuietEnv}) \cup (Manual(GoodRequests) \X Envs) :
       Apply(Intake(State, d[1], d[2], HmacMismatchManual(d[1])),
             [op |-> "webhook", req |-> d[1]])
  /\ UNCHANGED << sweepRunning, pending >>

\* GET /cron/retry-failed (index.js:360-400); sweeps do not overlap
CronRetryFailed ==
  /\ lastReq = Idle
  /\ ~sweepRunning
  /\ \E env \in Envs :
       \E st \in {RetryFailed(State, env)} :
          /\ Apply(st, [op |-> "retry-failed"])
          /\ sweepRunning' = st.hung
          /\ UNCHANGED pending

\* platform behaviours in which every credential the platform issued is accepted
CalmEnvs == { e \in Envs : e.auth = "check" /\ e.refresh = "ok" }

\* POST /webhooks/orders-create (index.js:410-546) for payloads whose id is a
\* number or a string
WebhookOrdersCreateAnyId ==
  /\ lastReq = Idle
  /\ \E d \in (GoodRequests \cup TextRequests) \X CalmEnvs :
       Apply(Intake(State, d[1], d[2], HmacMismatch(d[1])), [op |-> "webhook", req |-> d[1]])
  /\ UNCHANGED << sweepRunning, pending >>

\* POST /webhooks/orders-create (index.js:410-546) for payloads whose id is a
\* string
WebhookOrdersCreateTextId ==
  /\ lastReq = Idle
  /\ \E d \in TextRequests \X CalmEnvs :
       Apply(Intake(State, d[1], d[2], HmacMismatch(d[1])), [op |-> "webhook", req |-> d[1]])
  /\ UNCHANGED << sweepRunning, pending >>

\* POST /webhooks/orders-create (index.js:410-546): a delivery arrives and
\* runs to its response or to its first await
WebhookArrives ==
  /\ lastReq = Idle
  /\ Len(pending) < MaxPending
  /\ \E d \in GoodRequests \X CalmEnvs :
       \E st \in {IntakeArrives(State, d[1], d[2], HmacMismatch(d[1]))} :
         /\ Apply(st, [op |-> "webhook arrives", req |-> d[1]])
         /\ pending' = IF st.resp = NoResponse
                       THEN Append(pending, Suspended(st, d[1], d[2]))
                       ELSE pending
  /\ UNCHANGED sweepRunning

\* POST /webhooks/orders-create (index.js:410-546): a suspended delivery goes
\* on to its end
WebhookResumes ==
  /\ lastReq = Idle
  /\ \E i \in 1..Len(pending) :
       /\ Apply(IntakeResumes(State, pending[i]),
                [op |-> "webhook resumes", req |-> pending[i].req])
       /\ pending' = SubSeq(pending, 1, i - 1) \o SubSeq(pending, i + 1, Len(pending))
  /\ UNCHANGED sweepRunning

\* POST /resync/:orderId (index.js:320-341)
ResyncOrder ==
  /\ lastReq = Idle
  /\ \E orderId \in TextIds, env \in CalmEnvs :
       Apply(Resync(State, orderId, env), [op |-> "resync", orderId |-> orderId])
  /\ UNCHANGED << sweepRunning, pending >>

\* GET /cron/retry-failed while the Redis database cannot be reached
CronRetryFailedUnreachable ==
  /\ lastReq = Idle
  /\ ~sweepRunning
  /\ Apply(RetryFailedUnreachable(State), [op |-> "retry-failed", redis |-> "unreachable"])
  /\ UNCHANGED << sweepRunning, pending >>

\* POST /webhooks/orders-create (index.js:410-546) while the Redis database
\* cannot be reached
WebhookOrdersCreateUnreachable ==
  /\ lastReq = Idle
  /\ \E d \in (BadRequests \X {QuietEnv}) \cup (GoodRequests \X CalmEnvs) :
       Apply(Intake([State EXCEPT !.redisUp = FALSE], d[1], d[2], HmacMismatch(d[1])),
             [op |-> "webhook", req |-> d[1], redis |-> "unreachable"])
  /\ UNCHANGED << sweepRunning, pending >>

\* a stored value that JSON.parse rejects
Garbage == [raw |-> "not json"]

\* an element of the list failed_queue is damaged in the Redis database, or
\* something that is not a record is inserted in it (once)
QueueCorrupted ==
  /\ lastReq = Idle
  /\ \A i \in 1..Len(failed_queue) : Parses(failed_queue[i])
  /\ \/ \E i \in 1..Len(failed_queue) :
          failed_queue' = [failed_queue EXCEPT ![i] = Garbage]
     \/ \E i \in 0..Len(failed_queue) :
          failed_queue' = SubSeq(failed_queue, 1, i) \o << Garbage >>
                            \o SubSeq(failed_queue, i + 1, Len(failed_queue))
  /\ UNCHANGED << processedOrders, orderLogs, failedOrders, order_history,
                  credVars, remoteVars, obsVars, tokenCalls >>

\* lightspeed.js:40-87  exchangeCodeForToken
ExchangeCodeForToken(c, granted) ==
  IF granted /\ c.issued < MaxTokens
  THEN LET new == c.issued + 1
           c1 == [c EXCEPT !.issued = new, !.valid = new, !.rfr = new,
                           !.accessToken = new, !.refreshToken = new]
       IN [c |-> IF redisAvailable THEN [c1 EXCEPT !.kv = TokenPayload(new, new)] ELSE c1,
           ok |-> TRUE]
  ELSE [c |-> c, ok |-> FALSE]

\* GET /lightspeed/callback (lightspeedAuth.js:19-34)
OAuthCallback ==
  /\ lastReq = Idle
  /\ \E granted \in BOOLEAN :
       \E r \in {ExchangeCodeForToken(Cur, granted)} :
          Apply(Respond([State EXCEPT !.c = r.c], IF r.ok THEN 200 ELSE 500,
                        IF r.ok THEN "Lightspeed connected" ELSE "OAuth failed"),
                [op |-> "callback"])
  /\ UNCHANGED << sweepRunning, pending >>

\* GET /refresh-token (index.js:344-357)
RefreshToken ==
  /\ lastReq = Idle
  /\ \E env \in { e \in Envs : e.auth = "check" /\ e.sale = "ok" } :
       IF ~HasValidToken(Cur)
       THEN \E r \in {RefreshAccessToken(Cur, env)} :
               Apply(Respond([State EXCEPT !.c = r.c], IF r.ok THEN 200 ELSE 500,
                             IF r.ok THEN "Token refreshed successfully" ELSE "Refresh failed"),
                     [op |-> "refresh-token"])
       ELSE Apply(Respond(State, 200, "Token still valid"), [op |-> "refresh-token"])
  /\ UNCHANGED << sweepRunning, pending >>

\* platform behaviours of the token endpoint: it grants a refresh with or
\* without a new refresh token, or rejects it
TokenEnvs == [auth : {"check"}, sale : {"ok"}, refresh : {"ok", "okRotate", "fail"}]

\* refreshAccessToken() (lightspeed.js:89-136) called by one of its callers:
\* the /refresh-token route (index.js:347) or the 401 branch of a client call
\* (lightspeed.js:208, 281)
RefreshAccessTokenCall ==
  /\ lastReq = Idle
  /\ \E env \in TokenEnvs :
       \E r \in {RefreshAccessToken(Cur, env)} :
          Apply([State EXCEPT
                   !.c = r.c,
                   !.calls = << [fn |-> "refreshAccessToken", result |-> IF r.ok THEN "ok" ELSE "error",
                                 sent |-> r.sent, err |-> r.err, stat |-> NoStat] >>],
                [op |-> "refreshAccessToken", env |-> env, before |-> refreshToken,
                 key |-> lightspeed_tokens])
  /\ UNCHANGED << sweepRunning, pending >>

\* items of the remote catalog, one for each kind of cost
PricedItems == {55, 56, 60, 61, 62, 63, 64, 65}

\* the saleLines createSale is called with: one line, or two lines
PricedLines ==
  LET SaleLine == [itemID : PricedItems, quantity : {1, 2}, unitPrice : {700}]
  IN { << l >> : l \in SaleLine }
       \cup { << [itemID |-> 55, quantity |-> 2, unitPrice |-> 700], l >> :
                l \in { m \in SaleLine : m.quantity = 1 } }

\* createSale() (lightspeed.js:216-287) called by one of its callers
\* (index.js:326, 374, 493) with saleLines of resolved items
CreateSaleCall ==
  /\ lastReq = Idle
  /\ Len(lsSales) < MaxSales
  /\ \E saleLines \in PricedLines, env \in Envs :
       \E r \in {CreateSale(Cur, Lines(saleLines), 7, env, 0)} :
          Apply([State EXCEPT !.c = r.c,
                              !.calls = << SaleCall(Lines(saleLines), 7, r) >>,
                              !.hung = r.result = "looping"],
                [op |-> "createSale", env |-> env])
  /\ UNCHANGED << sweepRunning, pending >>

\* values of the key lightspeed_tokens that are no well-formed pair: text
\* that is no JSON, the empty string, records that lack one of the tokens
DamagedTokens ==
  { [raw |-> "not json"], [raw |-> ""],
    [json |-> [accessToken |-> 1]], [json |-> [refreshToken |-> 1]] }

\* the value of the key lightspeed_tokens is damaged in the Redis database
TokensCorrupted ==
  /\ lastReq = Idle
  /\ lightspeed_tokens \notin DamagedTokens
  /\ lightspeed_tokens' \in DamagedTokens
  /\ UNCHANGED << progVars, accessToken, refreshToken, redisAvailable, remoteVars,
                  obsVars, tokenCalls >>

\* orderLogs = savedOrders.map(o => JSON.parse(o)).reverse()
ReverseParsed(list) == [i \in 1..Len(list) |-> Parse(list[Len(list) + 1 - i])]

\* the process is restarted: index.js:246-267 and lightspeed.js:9-34, 170 run
\* again. loadTokens() at lightspeed.js:170 runs before the ping is answered,
\* finds redisAvailable false and returns (lightspeed.js:139-142).
Restart ==
  /\ lastReq = Idle
  /\ Len(order_history) < MaxHistory
  /\ processedOrders' = {}
  /\ orderLogs' = ReverseParsed(order_history)
  /\ failedOrders' = ReverseParsed(failed_queue)
  /\ accessToken' = 0
  /\ refreshToken' = 0
  /\ redisAvailable' = FALSE
  /\ sweepRunning' = FALSE
  /\ pending' = << >>
  /\ lastReq' = [op |-> "restart"]
  /\ UNCHANGED << order_history, failed_queue, lightspeed_tokens, remoteVars,
                  clock, lastResp, calls, submits, tokenCalls >>

\* lightspeed.js:19-23  the ping sent at module load is answered
RedisPingAnswered ==
  /\ lastReq = Idle
  /\ ~redisAvailable
  /\ redisAvailable' = TRUE
  /\ UNCHANGED << progVars, accessToken, refreshToken, lightspeed_tokens, remoteVars,
                  obsVars, tokenCalls >>

----------------------------------------------------------------------------
(* lightspeed.js:40-136 await by await: calls that overlap                 *)

\* a call: kind "exchange" or "refresh"; pc, where it stands:
\*   "idle"       not started
\*   "requested"  awaiting axios.post (lightspeed.js:43, 102)
\*   "answered"   the token endpoint has granted it; the response is on its way
\*   "rejected"   the token endpoint has refused it; the response is on its way
\*   "storing"    awaiting redis.set (lightspeed.js:63, 120)
\*   "stored"     Redis has written the key; awaiting the answers of set and get
\*   "done"       returned the access token
\*   "failed"     threw
\* sent: the refresh token in the request; access, refresh: the tokens in the
\* response (refresh 0: none); payload: the value given to redis.set
NoCall == [kind |-> "none", pc |-> "idle", sent |-> 0, access |-> 0, refresh |-> 0,
           payload |-> NoKey]

CallIds == 1..MaxCalls

\* the call i goes on to c; returned: the access token returned by the call
\* that returned last
Move(i, c) ==
  tokenCalls' = [call |-> [tokenCalls.call EXCEPT ![i] = c],
                 returned |-> IF c.pc = "done" THEN c.access ELSE tokenCalls.returned]

\* no call, or one that is over, stands at i
Free(i) == tokenCalls.call[i].pc \in {"idle", "done", "failed"}

\* lightspeed.js:40-53  exchangeCodeForToken(code) sends its request
ExchangeStarts(i) ==
  /\ Free(i)
  /\ Move(i, [NoCall EXCEPT !.kind = "exchange", !.pc = "requested"])
  /\ UNCHANGED << progVars, credVars, remoteVars, obsVars >>

\* lightspeed.js:89-111  refreshAccessToken() sends its request, or throws for
\* want of a refresh token (the load of lines 92-98 is taken as one step)
RefreshStarts(i) ==
  /\ Free(i)
  /\ \E c \in {IF refreshToken = 0 THEN LoadTokens(Cur) ELSE Cur} :
       /\ accessToken' = c.accessToken
       /\ refreshToken' = c.refreshToken
       /\ lightspeed_tokens' = c.kv
       /\ Move(i, [NoCall EXCEPT !.kind = "refresh",
                                 !.pc = IF c.refreshToken = 0 THEN "failed" ELSE "requested",
                                 !.sent = c.refreshToken])
  /\ UNCHANGED << progVars, redisAvailable, remoteVars, obsVars >>

\* the token endpoint handles the request of call i
TokenEndpointAnswers(i) ==
  LET c == tokenCalls.call[i]
      new == lsIssued + 1
  IN /\ c.pc = "requested"
     /\ \E env \in TokenEnvs :
          IF /\ env.refresh # "fail"
             /\ lsIssued < MaxTokens
             /\ c.kind = "refresh" => c.sent = lsRefresh
          THEN LET supplied == IF c.kind = "exchange" \/ env.refresh = "okRotate"
                               THEN new ELSE 0
               IN /\ lsIssued' = new
                  /\ lsValid' = new
                  /\ lsRefresh' = IF supplied # 0 THEN supplied ELSE lsRefresh
                  /\ Move(i, [c EXCEPT !.pc = "answered", !.access = new,
                                       !.refresh = supplied])
          ELSE /\ Move(i, [c EXCEPT !.pc = "rejected"])
               /\ UNCHANGED << lsIssued, lsValid, lsRefresh >>
     /\ UNCHANGED << progVars, credVars, lsSales, obsVars >>

\* lightspeed.js:55-78, 113-127  the response reaches the call: the tokens
\* are assigned and, when redisAvailable, redis.set is called;
\* lightspeed.js:79-86, 128-135  or the error is thrown on
ResponseArrives(i) ==
  LET c == tokenCalls.call[i]
  IN /\ c.pc \in {"answered", "rejected"}
     /\ IF c.pc = "rejected"
        THEN /\ Move(i, [c EXCEPT !.pc = "failed"])
             /\ UNCHANGED << accessToken, refreshToken >>
        ELSE \E rt \in {IF c.kind = "exchange" THEN c.refresh
                        ELSE NextRefreshToken(c.refresh, refreshToken)} :
               /\ accessToken' = c.access
               /\ refreshToken' = rt
               /\ Move(i, IF redisAvailable
                          THEN [c EXCEPT !.pc = "storing",
                                         !.payload = TokenPayload(c.access, rt)]
                          ELSE [c EXCEPT !.pc = "done"])
     /\ UNCHANGED << progVars, redisAvailable, lightspeed_tokens, remoteVars, obsVars >>

\* Redis handles the set command of call i
RedisSets(i) ==
  LET c == tokenCalls.call[i]
  IN /\ c.pc = "storing"
     /\ lightspeed_tokens' = c.payload
     /\ Move(i, [c EXCEPT !.pc = "stored"])
     /\ UNCHANGED << progVars, accessToken, refreshToken, redisAvailable, remoteVars, obsVars >>

\* lightspeed.js:63-78, 120-127  the awaits on Redis are over: the call returns
CallReturns(i) ==
  LET c == tokenCalls.call[i]
  IN /\ c.pc = "stored"
     /\ Move(i, [c EXCEPT !.pc = "done"])
     /\ UNCHANGED << progVars, credVars, remoteVars, obsVars >>

\* the remote platform stops accepting the access token it issued last
TokenExpires ==
  /\ lastReq = Idle
  /\ lsValid # 0
  /\ lsValid' = 0
  /\ UNCHANGED << progVars, credVars, lsIssued, lsRefresh, lsSales, obsVars, tokenCalls >>

\* the response has been observed; the next request can be sent
Settle ==
  /\ lastReq # Idle
  /\ lastReq' = Idle
  /\ lastResp' = NoResponse
  /\ calls' = << >>
  /\ UNCHANGED << progVars, credVars, remoteVars, clock, submits, sweepRunning, tokenCalls,
                  pending >>

----------------------------------------------------------------------------
\* index.js:246-250, lightspeed.js:9-34; the Redis database is empty and the
\* remote platform has issued no token
Init ==
  /\ processedOrders = {}
  /\ orderLogs = << >>
  /\ failedOrders = << >>
  /\ order_history = << >>
  /\ failed_queue = << >>
  /\ accessToken = 0
  /\ refreshToken = 0
  /\ redisAvailable = FALSE
  /\ lightspeed_tokens = NoKey
  /\ lsIssued = 0
  /\ lsValid = 0
  /\ lsRefresh = 0
  /\ lsSales = << >>
  /\ clock = 0
  /\ lastReq = Idle
  /\ lastResp = NoResponse
  /\ calls = << >>
  /\ submits = [id \in OrderIds \cup TextIds |-> 0]
  /\ sweepRunning = FALSE
  /\ tokenCalls = [call |-> [i \in 1..MaxCalls |-> NoCall], returned |-> 0]
  /\ pending = << >>

\* the ping of lightspeed.js:19 stays unanswered in these behaviours
Next ==
  \/ WebhookOrdersCreate
  \/ CronRetryFailed
  \/ OAuthCallback
  \/ RefreshToken
  \/ TokenExpires
  \/ Settle

Spec == Init /\ [][Next]_vars

NextManual ==
  \/ WebhookOrdersCreateManual
  \/ CronRetryFailed
  \/ OAuthCallback
  \/ RefreshToken
  \/ TokenExpires
  \/ Settle

\* the program of part_002:298-629
SpecManual == Init /\ [][NextManual]_vars

\* the program of index.js with a Redis database that can be unreachable and
\* whose list failed_queue can be damaged
NextFaults ==
  \/ WebhookOrdersCreate
  \/ WebhookOrdersCreateUnreachable
  \/ CronRetryFailed
  \/ CronRetryFailedUnreachable
  \/ QueueCorrupted
  \/ OAuthCallback
  \/ RefreshToken
  \/ TokenExpires
  \/ Settle

SpecFaults == Init /\ [][NextFaults]_vars

\* the program of index.js with its manual resync route
NextResync ==
  \/ WebhookOrdersCreateAnyId
  \/ CronRetryFailed
  \/ ResyncOrder
  \/ OAuthCallback
  \/ Settle

SpecResync == Init /\ [][NextResync]_vars

\* the credential module lightspeed.js with its persistence
NextTokens ==
  \/ OAuthCallback
  \/ RefreshAccessTokenCall
  \/ RedisPingAnswered
  \/ Restart
  \/ Settle

SpecTokens == Init /\ [][NextTokens]_vars

\* the client function createSale of lightspeed.js
NextPricing ==
  \/ OAuthCallback
  \/ CreateSaleCall
  \/ TokenExpires
  \/ Settle

SpecPricing == Init /\ [][NextPricing]_vars

\* the program of index.js, restarted, with its sweep and its resync route
NextEvict ==
  \/ WebhookOrdersCreateTextId
  \/ CronRetryFailed
  \/ ResyncOrder
  \/ OAuthCallback
  \/ Restart
  \/ Settle

SpecEvict == Init /\ [][NextEvict]_vars

\* the credential module lightspeed.js with a key that can be damaged
\* the records that deliveries of one order left in earlier process
\* lifetimes, the k-th at time k: skipped (index.js:448-467), failed
\* (index.js:515-540), or skipped and failed in turn
Queued(kind, k) ==
  IF kind = "skipped" \/ (kind = "mixed" /\ k % 2 = 0)
  THEN Stringify(SkipInfo(ProbeOrder, "store-a.example", EnvLsCustomer("store-a.example"), k))
  ELSE Stringify(ErrorInfo(ProbeOrder, "store-a.example", EnvLsCustomer("store-a.example"),
                           k, "remote error"))

\* index.js:246-267  the process starts while order_history and failed_queue
\* hold n records (LPUSH: the newest first)
InitDrain ==
  \E n \in 0..MaxQueued, kind \in {"skipped", "failed", "mixed"} :
    /\ processedOrders = {}
    /\ order_history = [i \in 1..n |-> Queued(kind, n + 1 - i)]
    /\ failed_queue = [i \in 1..n |-> Queued(kind, n + 1 - i)]
    /\ orderLogs = [i \in 1..n |-> Parse(Queued(kind, i))]
    /\ failedOrders = [i \in 1..n |-> Parse(Queued(kind, i))]
    /\ accessToken = 0
    /\ refreshToken = 0
    /\ redisAvailable = FALSE
    /\ lightspeed_tokens = NoKey
    /\ lsIssued = 0
    /\ lsValid = 0
    /\ lsRefresh = 0
    /\ lsSales = << >>
    /\ clock = n
    /\ lastReq = Idle
    /\ lastResp = NoResponse
    /\ calls = << >>
    /\ submits = [id \in OrderIds \cup TextIds |-> 0]
    /\ sweepRunning = FALSE
    /\ tokenCalls = [call |-> [i \in 1..MaxCalls |-> NoCall], returned |-> 0]
    /\ pending = << >>

\* no delivery arrives
NextDrain ==
  \/ CronRetryFailed
  \/ OAuthCallback
  \/ TokenExpires
  \/ Settle

\* every request that was sent is answered or given up
SpecDrain == InitDrain /\ [][NextDrain]_vars /\ WF_vars(Settle)

NextDedup ==
  \/ WebhookArrives
  \/ WebhookResumes
  \/ OAuthCallback
  \/ TokenExpires
  \/ Settle

SpecDedup == Init /\ [][NextDedup]_vars

NextStore ==
  \/ OAuthCallback
  \/ RefreshAccessTokenCall
  \/ RedisPingAnswered
  \/ Restart
  \/ TokensCorrupted
  \/ Settle

SpecStore == Init /\ [][NextStore]_vars

\* the credential module lightspeed.js with calls that overlap
NextRace ==
  \/ RedisPingAnswered
  \/ \E i \in CallIds :
       \/ ExchangeStarts(i)
       \/ RefreshStarts(i)
       \/ TokenEndpointAnswers(i)
       \/ ResponseArrives(i)
       \/ RedisSets(i)
       \/ CallReturns(i)

SpecRace == Init /\ [][NextRace]_vars

\* the program of index.js with its credential persistence, restarted
NextRestart ==
  \/ WebhookOrdersCreateAnyId
  \/ OAuthCallback
  \/ RedisPingAnswered
  \/ Restart
  \/ Settle

SpecRestart == Init /\ [][NextRestart]_vars

----------------------------------------------------------------------------
(* Properties                                                              *)

\* the request is a delivery by the configured store, signed with its secret
Authentic(req) ==
  req.domain = "store-a.example" /\ req.sig = [key |-> "s3cr3t", msg |-> req.order]

\* number of audit-log entries / retry-queue records for an order id
AuditCount(logs, id) == Cardinality({ i \in 1..Len(logs) : logs[i].shopifyOrderId = id })
QueueCount(queue, id) == Cardinality({ i \in 1..Len(queue) : queue[i].json.shopifyOrderId = id })

\* the step is the handling of a webhook delivery
WebhookStep == lastReq = Idle /\ lastReq'.op = "webhook"
\* the step is a run of the retry sweep
SweepStep == lastReq = Idle /\ lastReq'.op = "retry-failed"

LookupCalls(cs) == SelectSeq(cs, LAMBDA k : k.fn = "getItemBySystemSku")
SaleCalls(cs) == SelectSeq(cs, LAMBDA k : k.fn = "createSale")

\* C1 (as claimed): every authenticated delivery of an order id is answered
\* 200 and, once an id has been delivered, there is exactly one audit-log
\* entry and at most one retry-queue record for it.
C1_AsClaimed ==
  (lastReq.op = "webhook" /\ Authentic(lastReq.req)) =>
     /\ lastResp.status = 200
     /\ AuditCount(orderLogs, lastReq.req.order.id) = 1
     /\ QueueCount(failed_queue, lastReq.req.order.id) <= 1

\* C1 (amended): a repeated authenticated delivery of an order id changes no
\* state and is answered 200; an order id never has more than one audit-log
\* entry or more than one retry-queue record; a first delivery whose sale
\* submission fails is answered 500, and one of which no line resolves leaves
\* no audit-log entry.
C1_IdempotentIntake ==
  [][ /\ \A id \in OrderIds :
           AuditCount(orderLogs', id) <= 1 /\ QueueCount(failed_queue', id) <= 1
      /\ (WebhookStep /\ Authentic(lastReq'.req)) =>
           LET id == lastReq'.req.order.id
           IN /\ id \in processedOrders =>
                   /\ lastResp'.status = 200
                   /\ calls' = << >>
                   /\ UNCHANGED << progVars, credVars, remoteVars, clock, submits >>
              /\ id \notin processedOrders =>
                   /\ id \in processedOrders'
                   /\ (\E i \in DOMAIN calls' :
                          calls'[i].fn = "createSale" /\ calls'[i].result = "error")
                        => lastResp'.status = 500 /\ AuditCount(orderLogs', id) = 1
                   /\ lastResp'.body = "OK - No syncable items"
                        => AuditCount(orderLogs', id) = 0
    ]_vars

\* a second delivery was answered after the first had been queued as failed
C1_Witness ==
  /\ lastReq.op = "webhook" /\ Authentic(lastReq.req)
  /\ accessToken # 0
  /\ lastResp = [status |-> 200, body |-> "OK"]
  /\ calls = << >>
  /\ AuditCount(orderLogs, lastReq.req.order.id) = 1
  /\ QueueCount(failed_queue, lastReq.req.order.id) = 1

\* C2: a client call whose requests were all answered 401 and whose refreshes
\* all succeeded made exactly one refresh and two requests and ended with the
\* 401 error.
C2_BoundedAuthRetry ==
  \A i \in DOMAIN calls :
    LET k == calls[i]
    IN (k.stat.requests >= 1 /\ k.stat.unauthorized = k.stat.requests
          /\ k.stat.refreshOk = k.stat.refreshes)
       => (k.stat.refreshes = 1 /\ k.stat.requests = 2 /\ k.result = "error" /\ k.err = "401")

\* C3: sweeps call createSale at most 5 times for a queued attempt; a sweep
\* that returns has removed every record it read whose 5 submissions failed
\* and has marked its audit entry permanent-fail; a record that has reached
\* the ceiling is not submitted again.
C3_RetryCeiling ==
  [][ SweepStep =>
        /\ \A id \in OrderIds : submits'[id] <= 5
        /\ \A i \in 1..Len(failed_queue) :
             LET data == failed_queue[i].json
                 id == data.shopifyOrderId
             IN ("retryCount" \in DOMAIN data /\ data.retryCount >= 5) =>
                  /\ submits'[id] = submits[id]
                  /\ (i <= 10 /\ lastResp'.status = 200) =>
                       /\ QueueCount(failed_queue', id) = 0
                       /\ \E j \in 1..Len(orderLogs') :
                            /\ orderLogs'[j].shopifyOrderId = id
                            /\ orderLogs'[j].status = "permanent fail (max retries)"
    ]_vars

\* an attempt was submitted 5 times, then evicted and marked
C3_Witness ==
  /\ lastReq.op = "retry-failed"
  /\ \E id \in OrderIds :
       /\ submits[id] = 5
       /\ QueueCount(failed_queue, id) = 0
       /\ \E j \in 1..Len(orderLogs) :
            /\ orderLogs[j].shopifyOrderId = id
            /\ orderLogs[j].status = "permanent fail (max retries)"

\* C4: when createSale fails during intake, the answer is 500, the audit log
\* has a failed entry with the error context, and the retry queue holds a
\* record of the order with retryCount = 0; whenever the answer is 500 the
\* retry queue holds a record of the order.
C4_FailureEnqueued ==
  (lastReq.op = "webhook") =>
    LET id == lastReq.req.order.id
        queued == { i \in 1..Len(failed_queue) : failed_queue[i].json.shopifyOrderId = id }
    IN /\ lastResp.status = 500 => queued # {}
       /\ (\E i \in DOMAIN calls : calls[i].fn = "createSale" /\ calls[i].result = "error") =>
            /\ lastResp.status = 500
            /\ \E j \in 1..Len(orderLogs) :
                 /\ orderLogs[j].shopifyOrderId = id
                 /\ orderLogs[j].status = "failed"
                 /\ {"errorMessage", "errorDetails"} \subseteq DOMAIN orderLogs[j]
            /\ \E i \in queued :
                 /\ "retryCount" \in DOMAIN failed_queue[i].json
                 /\ failed_queue[i].json.retryCount = 0

\* C5: a record queued after a failed sale submission carries the sale lines
\* and the customer id of that submission.
C5_QueuedRecordCarriesLines ==
  (lastReq.op = "webhook" /\ lastResp.status = 500) =>
    \E i \in DOMAIN calls :
      /\ calls[i].fn = "createSale"
      /\ \E q \in 1..Len(failed_queue) :
           LET data == failed_queue[q].json
           IN /\ data.shopifyOrderId = lastReq.req.order.id
              /\ "saleLines" \in DOMAIN data
              /\ data.saleLines = calls[i].saleLines.lines
              /\ data.lsCustomerID = "7"

\* C6: an authenticated, first-seen delivery handled while no access token is
\* cached makes no remote call, is recorded as skipped, is queued with
\* retryCount 0 and is answered 200.
C6_SkipWithoutToken ==
  [][ (WebhookStep /\ Authentic(lastReq'.req)
         /\ lastReq'.req.order.id \notin processedOrders /\ accessToken = 0) =>
        LET id == lastReq'.req.order.id
        IN /\ calls' = << >>
           /\ UNCHANGED << remoteVars, credVars >>
           /\ lastResp'.status = 200
           /\ Len(orderLogs') = Len(orderLogs) + 1
           /\ orderLogs'[Len(orderLogs')].shopifyOrderId = id
           /\ orderLogs'[Len(orderLogs')].status = "skipped"
           /\ Len(failed_queue') = Len(failed_queue) + 1
           /\ failed_queue'[1].json.shopifyOrderId = id
           /\ "retryCount" \in DOMAIN failed_queue'[1].json
           /\ failed_queue'[1].json.retryCount = 0
    ]_vars

\* a delivery has just been skipped and queued
C6_Witness ==
  /\ lastReq.op = "webhook" /\ Authentic(lastReq.req)
  /\ accessToken = 0
  /\ lastResp.status = 200
  /\ Len(orderLogs) = 1 /\ orderLogs[1].status = "skipped"
  /\ Len(failed_queue) = 1 /\ failed_queue[1].json.retryCount = 0

\* the handling of a delivery left the program, the credential and the
\* remote platform as they were and made no client call
Untouched ==
  /\ UNCHANGED << progVars, credVars, remoteVars, clock, submits >>
  /\ calls' = << >>

\* C7: a delivery without domain header is answered 400, one from a store
\* that is not configured or one whose signature is not the HMAC of its body
\* under the store's secret is answered 401, and none of them changes state
\* or causes a remote call.
C7_RejectedUnchanged ==
  [][ WebhookStep =>
        LET r == lastReq'.req
        IN /\ r.domain = "" => lastResp'.status = 400 /\ Untouched
           /\ r.domain \notin {"", "store-a.example"} => lastResp'.status = 401 /\ Untouched
           /\ (r.domain = "store-a.example" /\ r.sig # [key |-> "s3cr3t", msg |-> r.order])
                => lastResp'.status = 401 /\ Untouched
    ]_vars

\* a wrongly signed delivery was rejected after an order had been processed
C7_Witness ==
  /\ lastReq.op = "webhook"
  /\ lastReq.req.domain = "store-a.example"
  /\ lastReq.req.sig # [key |-> "s3cr3t", msg |-> lastReq.req.order]
  /\ lastResp.status = 401
  /\ processedOrders # {} /\ orderLogs # << >>

\* C8: a delivery whose signature is not the HMAC of its body under the
\* store's secret is rejected (401, or 400 when it names no store), whatever
\* else it contains.
C8_SignatureRequired ==
  (lastReq.op = "webhook"
     /\ lastReq.req.sig # [key |-> EnvWebhookSecret(lastReq.req.domain), msg |-> lastReq.req.order])
    => lastResp.status \in {400, 401}

\* C9: the sale submitted by intake has one line per order line that has a
\* sku and whose lookup succeeded, in the order's line order, with that
\* line's quantity and price; when some line resolves the sale is submitted
\* although other lookups failed; when the sale succeeds the answer is 200.
C9_PartialLineResolution ==
  [][ (WebhookStep /\ Authentic(lastReq'.req)
         /\ lastReq'.req.order.id \notin processedOrders /\ accessToken # 0) =>
        LET usable == SelectSeq(lastReq'.req.order.line_items,
                                LAMBDA l : l.sku \notin {Undefined, ""})
            lookups == LookupCalls(calls')
            sales == SaleCalls(calls')
            hung == \E i \in DOMAIN lookups : lookups[i].result = "looping"
            resolved == { i \in DOMAIN lookups : lookups[i].result = "ok" }
        IN /\ Len(sales) <= 1
           /\ ~hung => Len(lookups) = Len(usable)
           /\ (~hung /\ resolved # {}) => Len(sales) = 1
           /\ Len(sales) = 1 =>
                LET lines == sales[1].saleLines.lines
                IN /\ sales[1].saleLines.defined
                   /\ Len(lines) = Cardinality(resolved)
                   /\ \A n \in DOMAIN lines :
                        \E i \in resolved :
                          /\ Cardinality({ j \in resolved : j <= i }) = n
                          /\ lines[n].quantity = usable[i].quantity
                          /\ lines[n].unitPrice = usable[i].price
                   /\ sales[1].result = "ok" =>
                        /\ lastResp'.status = 200
                        /\ Len(lsSales') = Len(lsSales) + 1
                        /\ Len(lsSales'[Len(lsSales')].SaleLines) = Len(lines)
    ]_vars

\* an order of 3 lines with 1 failed lookup was submitted as a 2-line sale
C9_Witness ==
  /\ lastReq.op = "webhook"
  /\ Len(lastReq.req.order.line_items) = 3
  /\ Len(LookupCalls(calls)) = 3
  /\ Cardinality({ i \in 1..3 : LookupCalls(calls)[i].result = "error" }) = 1
  /\ Len(SaleCalls(calls)) = 1
  /\ Len(SaleCalls(calls)[1].saleLines.lines) = 2
  /\ SaleCalls(calls)[1].result = "ok"
  /\ lastResp.status = 200

\* C10: when no line of an authenticated, first-seen order resolves, intake
\* does not call createSale and creates no sale, and, every lookup having
\* returned, its answer is 200.
C10_NoSyncableItems ==
  [][ (WebhookStep /\ Authentic(lastReq'.req)
         /\ lastReq'.req.order.id \notin processedOrders) =>
        LET lookups == LookupCalls(calls')
        IN (\A i \in DOMAIN lookups : lookups[i].result # "ok") =>
              /\ SaleCalls(calls') = << >>
              /\ lsSales' = lsSales
              /\ (\A i \in DOMAIN lookups : lookups[i].result = "error")
                   => lastResp'.status = 200
    ]_vars

\* an order was accepted with a cached token although every lookup failed
C10_Witness ==
  /\ lastReq.op = "webhook" /\ Authentic(lastReq.req)
  /\ accessToken # 0
  /\ LookupCalls(calls) # << >>
  /\ \A i \in DOMAIN calls : calls[i].fn = "getItemBySystemSku" /\ calls[i].result = "error"
  /\ lastResp = [status |-> 200, body |-> "OK - No syncable items"]

\* C11: when intake of an authenticated, first-seen order made a client call
\* that was answered 401 and whose refresh failed, the order has an audit
\* entry with status skipped and a record on the retry queue.
C11_RefreshFailureSkipped ==
  (lastReq.op = "webhook" /\ Authentic(lastReq.req)
     /\ \E i \in DOMAIN calls :
          calls[i].stat.unauthorized >= 1 /\ calls[i].stat.refreshOk < calls[i].stat.refreshes)
    => /\ \E j \in 1..Len(orderLogs) :
            /\ orderLogs[j].shopifyOrderId = lastReq.req.order.id
            /\ orderLogs[j].status = "skipped"
       /\ QueueCount(failed_queue, lastReq.req.order.id) >= 1

\* the records a sweep reads (the first 10 of the queue) and, of these, the
\* ones below the retry ceiling, which it submits in this order: the k-th
\* createSale call of a sweep is made for the k-th of them
SweepRead == SubSeq(failed_queue, 1, IF Len(failed_queue) < 10 THEN Len(failed_queue) ELSE 10)
AtCeiling(q) == "retryCount" \in DOMAIN q.json /\ q.json.retryCount >= 5
SweepSubmits == SelectSeq(SweepRead, LAMBDA q : ~AtCeiling(q))
CountOf(q) == IF "retryCount" \in DOMAIN q.json THEN q.json.retryCount ELSE 0
InQueue(queue, q) == \E i \in 1..Len(queue) : queue[i] = q
RetryLabel(n) ==
  CASE n = 1 -> "retrying (1/5)" [] n = 2 -> "retrying (2/5)" [] n = 3 -> "retrying (3/5)"
    [] n = 4 -> "retrying (4/5)" [] OTHER -> "retrying (5/5)"

\* C12: when a sweep's createSale succeeds for a queued record, the record is
\* no longer in the retry queue, the in-memory failed list has no entry of
\* its order id, and the audit entry of that order id has the status
\* "success (auto-retried)".
C12_SweepSuccessEvicts ==
  [][ SweepStep =>
        /\ Len(calls') <= Len(SweepSubmits)
        /\ \A k \in DOMAIN calls' :
             calls'[k].result = "ok" =>
               LET id == SweepSubmits[k].json.shopifyOrderId
               IN /\ ~InQueue(failed_queue', SweepSubmits[k])
                  /\ QueueCount(failed_queue', id) = 0
                  /\ \A i \in 1..Len(failedOrders') : failedOrders'[i].shopifyOrderId # id
                  /\ \E j \in 1..Len(orderLogs') :
                       /\ orderLogs'[j].shopifyOrderId = id
                       /\ orderLogs'[j].status = "success (auto-retried)"
    ]_vars

\* a sweep has submitted a queued record with success and emptied the queue
C12_Witness ==
  /\ lastReq.op = "retry-failed"
  /\ \E k \in DOMAIN calls : calls[k].fn = "createSale" /\ calls[k].result = "ok"
  /\ failed_queue = << >>
  /\ lsSales # << >>
  /\ \E j \in 1..Len(orderLogs) : orderLogs[j].status = "success (auto-retried)"

\* C13: when a sweep's createSale fails for a queued record of retry count n
\* (0 when the record has none), the queue afterwards holds exactly one record
\* of that order id, equal to the old one but for retryCount = n + 1, the old
\* serialized record is gone, the audit entry of the order id is marked
\* retrying with n + 1, and a sweep that returns has shortened the queue only
\* by the records it evicted (successes and records at the ceiling).
C13_SweepFailureRequeues ==
  [][ SweepStep =>
        /\ \A k \in DOMAIN calls' :
             calls'[k].result = "error" =>
               LET old == SweepSubmits[k]
                   id == old.json.shopifyOrderId
                   n == CountOf(old)
               IN /\ QueueCount(failed_queue', id) = 1
                  /\ ~InQueue(failed_queue', old)
                  /\ \E i \in 1..Len(failed_queue') :
                       LET new == failed_queue'[i].json
                       IN /\ new.shopifyOrderId = id
                          /\ "retryCount" \in DOMAIN new
                          /\ new.retryCount = n + 1
                          /\ DOMAIN new = DOMAIN old.json \cup {"retryCount"}
                          /\ \A f \in DOMAIN old.json \ {"retryCount"} : new[f] = old.json[f]
                  /\ \E j \in 1..Len(orderLogs') :
                       /\ orderLogs'[j].shopifyOrderId = id
                       /\ orderLogs'[j].status = RetryLabel(n + 1)
        /\ lastResp'.status = 200 =>
             Len(failed_queue') =
               Len(failed_queue)
                 - Cardinality({ k \in DOMAIN calls' : calls'[k].result = "ok" })
                 - Cardinality({ i \in DOMAIN SweepRead : AtCeiling(SweepRead[i]) })
    ]_vars

\* a record that had failed once has failed again and been re-queued
C13_Witness ==
  /\ lastReq.op = "retry-failed"
  /\ \E k \in DOMAIN calls : calls[k].result = "error"
  /\ Len(failed_queue) = 1
  /\ "retryCount" \in DOMAIN failed_queue[1].json
  /\ failed_queue[1].json.retryCount = 2
  /\ \E j \in 1..Len(orderLogs) : orderLogs[j].status = "retrying (2/5)"

Malformed(q) == "json" \notin DOMAIN q

\* C14: a sweep that reads a malformed record from the retry queue deletes
\* it and submits every other record it read that is below the ceiling.
C14_MalformedDeleted ==
  [][ (SweepStep /\ "redis" \notin DOMAIN lastReq'
         /\ \E i \in DOMAIN SweepRead : Malformed(SweepRead[i])) =>
        /\ \A i \in 1..Len(failed_queue') : ~Malformed(failed_queue'[i])
        /\ Len(calls') =
             Len(SelectSeq(SweepRead, LAMBDA q : ~Malformed(q) /\ ~AtCeiling(q)))
    ]_vars

\* C15: the sweep endpoint answers 200 when the Redis database is reachable
\* and 503 when it is not.
C15_SweepAnswers ==
  lastReq.op = "retry-failed" =>
    IF "redis" \in DOMAIN lastReq
    THEN lastResp.status = 503
    ELSE lastResp.status = 200

\* the step is the handling of a manual resync
ResyncStep == lastReq = Idle /\ lastReq'.op = "resync"
\* the queue records of the order that the route parameter names
QueuedFor(queue, orderId) ==
  { i \in 1..Len(queue) :
      queue[i].json.shopifyOrderId = orderId \/ 0 - queue[i].json.shopifyOrderId = orderId }

\* C16: a manual resync is answered 404 exactly when the retry queue holds no
\* record of the order id it names.
C16_ResyncFindsQueued ==
  [][ ResyncStep =>
        (lastResp'.status = 404 <=> QueuedFor(failed_queue, lastReq'.orderId) = {})
    ]_vars

\* C17: a manual resync that has called createSale leaves, on success, no
\* queue record of the order and an audit entry with a success status, and,
\* on failure, a queue record of the order whose retryCount is one more than
\* before.
C17_ResyncLikeSweep ==
  [][ (ResyncStep /\ calls' # << >>) =>
        LET orderId == lastReq'.orderId
        IN /\ calls'[1].result = "ok" =>
                /\ QueuedFor(failed_queue', orderId) = {}
                /\ \E j \in 1..Len(orderLogs') :
                     /\ orderLogs'[j].shopifyOrderId = orderId
                     /\ orderLogs'[j].status = "success (manual retry)"
           /\ calls'[1].result = "error" =>
                \A i \in QueuedFor(failed_queue, orderId) :
                  \E n \in QueuedFor(failed_queue', orderId) :
                    /\ "retryCount" \in DOMAIN failed_queue'[n].json
                    /\ failed_queue'[n].json.retryCount = CountOf(failed_queue[i]) + 1
    ]_vars

CallbackStep == lastReq = Idle /\ lastReq'.op = "callback"

RefreshCallStep == lastReq = Idle /\ lastReq'.op = "refreshAccessToken"

\* the credential key holds the access/refresh pair a, r
Persisted(kv, a, r) == kv = [json |-> [accessToken |-> a, refreshToken |-> r]]

\* the token endpoint has issued a new access token in this step
Issued == lsIssued' = lsIssued + 1 /\ lsValid' = lsIssued'

HoldsPair(kv) == kv # [absent |-> TRUE] /\ kv.json.accessToken # 0 /\ kv.json.refreshToken # 0

NoRefreshToken(call) == ~call.sent /\ call.err = "No refresh token available"

Previous == IF refreshToken # 0 THEN refreshToken ELSE lightspeed_tokens.json.refreshToken

RefreshedInMemory ==
  /\ Issued
  /\ accessToken' = lsIssued'
  /\ refreshToken' = IF lsRefresh' # lsRefresh THEN lsRefresh' ELSE Previous

SkippedNoToken ==
  /\ Len(orderLogs') = Len(orderLogs) + 1
  /\ orderLogs'[Len(orderLogs')].status = "skipped"

\* C21: a webhook handled while the Redis connection is confirmed and the
\* credential key holds a well-formed pair is never skipped for lack of a
\* token: the load at process start has put the pair in memory.
C21_StartupLoad ==
  [][ (WebhookStep /\ redisAvailable /\ HoldsPair(lightspeed_tokens)) => ~SkippedNoToken ]_vars

\* the fixed response bodies of the webhook route
WebhookBodies ==
  {"OK", "OK - No syncable items", "Missing shop domain",
   "Unauthorized - unknown store", "Unauthorized", "Internal Server Error"}

\* C22: every webhook invocation is answered, with status 200, 400, 401 or
\* 500 and one of the fixed bodies.
C22_WebhookAnswers ==
  [][ WebhookStep =>
        /\ lastResp'.status \in {200, 400, 401, 500}
        /\ lastResp'.body \in WebhookBodies
    ]_vars

RestartStep == lastReq = Idle /\ lastReq'.op = "restart"

\* the fields of an attempt that are compared after a round trip
Compared(a) == DOMAIN a \ {"status", "retryCount"}

\* a field whose value is undefined counts as a missing field
SameAttempt(a, b) ==
  LET ja == Stringify(a).json
      jb == Stringify(b).json
  IN /\ Compared(ja) = Compared(jb)
     /\ \A f \in Compared(ja) : ja[f] = jb[f]

\* C23: the audit entries loaded from order_history at a restart are, one for
\* one and but for status and retryCount, the audit entries that were in
\* memory before the restart.
C23_RoundTrip ==
  [][ RestartStep =>
        /\ Len(orderLogs') = Len(orderLogs)
        /\ \A i \in 1..Len(orderLogs) : SameAttempt(orderLogs'[i], orderLogs[i])
    ]_vars

CreateSaleStep == lastReq = Idle /\ lastReq'.op = "createSale"

\* the sale submitted in this step and the lines createSale was called with
Submitted == lsSales'[Len(lsSales')]
Supplied == calls'[1].saleLines.lines

\* the cost field the price is derived from: the average cost, else the
\* default cost, else none
CostField(id) ==
  LET item == CatalogById(id)
  IN IF item.avgCost \notin {[missing |-> TRUE], [num |-> 0]} THEN item.avgCost
     ELSE item.defaultCost

IsNumber(v) == "num" \in DOMAIN v \/ "str" \in DOMAIN v
NumberOf(v) == IF "num" \in DOMAIN v THEN v.num ELSE v.str

\* p (in cents) is cost (in thousandths) / 0.80 rounded to the cent
Marked(p, cost) == 8 * p - 4 <= cost /\ cost < 8 * p + 4

\* C24 (as stated): a line whose item has a positive cost is submitted at
\* round(cost / 0.80, 2); any other line at the unit price supplied.
C24_AsClaimed ==
  [][ (CreateSaleStep /\ calls'[1].result = "ok") =>
        /\ Len(Submitted.SaleLines) = Len(Supplied)
        /\ \A i \in 1..Len(Supplied) :
             LET cost == CostField(Supplied[i].itemID)
                 p == Submitted.SaleLines[i].unitPrice
             IN IF IsNumber(cost) /\ NumberOf(cost) > 0
                THEN Marked(p, NumberOf(cost))
                ELSE p = Supplied[i].unitPrice
    ]_vars

\* C24 (amended): a line whose item has a cost for which round(cost / 0.80, 2)
\* is positive is submitted at that price; any other line (cost zero,
\* negative, non-numeric, missing, or rounding to a price of 0.00) at the
\* unit price supplied.
C24_FulfillmentPrice ==
  [][ (CreateSaleStep /\ calls'[1].result = "ok") =>
        /\ Len(Submitted.SaleLines) = Len(Supplied)
        /\ \A i \in 1..Len(Supplied) :
             LET cost == CostField(Supplied[i].itemID)
                 p == Submitted.SaleLines[i].unitPrice
             IN IF IsNumber(cost) /\ NumberOf(cost) >= 4
                THEN Marked(p, NumberOf(cost))
                ELSE p = Supplied[i].unitPrice
    ]_vars

\* a sale of two lines: cost 4.00 is submitted at 5.00, a cost of zero at the
\* price supplied
C24_Witness ==
  /\ lastReq # Idle /\ lastReq.op = "createSale" /\ calls[1].result = "ok"
  /\ Len(lsSales) = 1
  /\ lsSales[1].SaleLines =
       << [itemID |-> 55, unitQuantity |-> 2, unitPrice |-> 500],
          [itemID |-> 56, unitQuantity |-> 1, unitPrice |-> 700] >>

RECURSIVE LineTotals(_)
\* the sum over the lines ls of unitPrice * unitQuantity, in cents
LineTotals(ls) ==
  IF ls = << >> THEN 0
  ELSE ls[1].unitPrice * ls[1].unitQuantity + LineTotals(Tail(ls))

\* C25: the payment amount of a submitted sale is 1.07 times the sum of its
\* lines' unitPrice * quantity, rounded to the cent.
C25_TotalWithTax ==
  [][ (CreateSaleStep /\ calls'[1].result = "ok") =>
        LET S == LineTotals(Submitted.SaleLines)
            amount == Submitted.amount
        IN 100 * amount - 50 <= 107 * S /\ 107 * S < 100 * amount + 50
    ]_vars

\* one line of quantity 2 at unit price 5.00 is paid 10.70
C25_Witness ==
  /\ lastReq # Idle /\ lastReq.op = "createSale" /\ calls[1].result = "ok"
  /\ Len(lsSales) = 1
  /\ lsSales[1].SaleLines = << [itemID |-> 55, unitQuantity |-> 2, unitPrice |-> 500] >>
  /\ lsSales[1].amount = 1070

\* C26: a createSale call one of whose remote requests, item re-fetch
\* included, was answered 401 has called refreshAccessToken.
C26_SaleRefreshOn401 ==
  [][ (CreateSaleStep /\ (calls'[1].stat.unauthorized > 0 \/ calls'[1].err = "401")) =>
        calls'[1].stat.refreshes >= 1
    ]_vars

\* C27: a non-empty in-memory access token is not older than the access
\* token returned by the exchange or refresh that returned last (the
\* platform numbers the access tokens in the order it issues them).
C27_MostRecentToken ==
  accessToken # 0 => accessToken >= tokenCalls.returned

\* two refreshAccessToken calls ran at once and both returned
BothRefreshed ==
  /\ \A i \in {1, 2} : tokenCalls.call[i].kind = "refresh" /\ tokenCalls.call[i].pc = "done"
  /\ tokenCalls.call[1].access # tokenCalls.call[2].access
  /\ tokenCalls.call[1].sent = tokenCalls.call[2].sent
  /\ tokenCalls.call[1].payload # [absent |-> TRUE]
  /\ tokenCalls.call[2].payload # [absent |-> TRUE]

\* C28: when two overlapping refreshAccessToken calls have both returned, the
\* credential key holds the pair that is in memory, and that pair is the one
\* written by one of the two.
C28_RefreshesConverge ==
  BothRefreshed =>
    /\ lightspeed_tokens = [json |-> [accessToken |-> accessToken, refreshToken |-> refreshToken]]
    /\ \E i \in {1, 2} : lightspeed_tokens = tokenCalls.call[i].payload

\* refreshAccessToken has loaded: it was called with no refresh token in
\* memory while the Redis connection was confirmed
LoadStep == RefreshCallStep /\ refreshToken = 0 /\ redisAvailable

Unparseable(kv) == "raw" \in DOMAIN kv
LacksToken(kv) ==
  /\ "json" \in DOMAIN kv
  /\ \/ "accessToken" \notin DOMAIN kv.json
     \/ "refreshToken" \notin DOMAIN kv.json

\* C29 (as stated): a load that reads a record that is unparseable or lacks
\* a token deletes the key and leaves the credential in memory as it was.
C29_AsClaimed ==
  [][ (LoadStep /\ (Unparseable(lightspeed_tokens) \/ LacksToken(lightspeed_tokens))) =>
        /\ lightspeed_tokens' = [absent |-> TRUE]
        /\ UNCHANGED << accessToken, refreshToken >>
    ]_vars

\* C29 (amended): a load that reads a record that is not empty and is
\* unparseable or lacks a token deletes the key and leaves the credential in
\* memory as it was; a load that reads the empty string leaves both the key
\* and the credential in memory as they were.
C29_MalformedDeleted ==
  [][ (LoadStep /\ (Unparseable(lightspeed_tokens) \/ LacksToken(lightspeed_tokens))) =>
        /\ lightspeed_tokens' = IF lightspeed_tokens = [raw |-> ""]
                                THEN lightspeed_tokens ELSE [absent |-> TRUE]
        /\ UNCHANGED << accessToken, refreshToken >>
    ]_vars

\* a load has deleted a record that lacked the refresh token
C29_Witness ==
  /\ lastReq # Idle /\ lastReq.op = "refreshAccessToken" /\ lastReq.before = 0
  /\ lastReq.key = [json |-> [accessToken |-> 1]]
  /\ lightspeed_tokens = [absent |-> TRUE]
  /\ accessToken = 0

\* the createSale call a sweep makes for the i-th queued record: records at
\* the ceiling are evicted without a call
CallIndex(i) == Cardinality({ j \in 1..i : ~AtCeiling(failed_queue[j]) })

\* the sweep has come to the i-th queued record, one at the ceiling: the
\* calls for the earlier records have all returned
Reached(i) ==
  /\ CallIndex(i) <= Len(calls')
  /\ \A k \in 1..CallIndex(i) : calls'[k].result # "looping"

\* the sweep has evicted the i-th queued record
Evicted(i) ==
  \/ AtCeiling(failed_queue[i]) /\ Reached(i)
  \/ ~AtCeiling(failed_queue[i])
       /\ CallIndex(i) <= Len(calls') /\ calls'[CallIndex(i)].result = "ok"

\* the sweep has failed to submit the i-th queued record
Failed(i) ==
  /\ ~AtCeiling(failed_queue[i])
  /\ CallIndex(i) <= Len(calls') /\ calls'[CallIndex(i)].result = "error"

\* the record q with its retry count raised by one
Raised(q) == [json |-> [retryCount |-> CountOf(q) + 1] @@ q.json]

\* the first entry of the in-memory failed list with the order id named
Found(orderId) ==
  CHOOSE j \in 1..Len(failedOrders) :
    /\ failedOrders[j].shopifyOrderId = orderId
    /\ \A k \in 1..(j - 1) : failedOrders[k].shopifyOrderId # orderId

\* C30: a sweep removes from the retry queue the records it evicted and no
\* other (a record it failed to submit is back with its retry count raised,
\* a record it did not reach is untouched); a resync that succeeds removes
\* the serialized record it submitted, at most one element, and no other.
C30_ExactRemoval ==
  [][ /\ (SweepStep /\ Len(failed_queue) <= 10) =>
          /\ \A i \in 1..Len(failed_queue) :
               \/ Evicted(i)
               \/ Failed(i) /\ InQueue(failed_queue', Raised(failed_queue[i]))
               \/ ~Failed(i) /\ InQueue(failed_queue', failed_queue[i])
          /\ Len(failed_queue') =
               Len(failed_queue) - Cardinality({ i \in 1..Len(failed_queue) : Evicted(i) })
      /\ (ResyncStep /\ calls' # << >> /\ calls'[1].result = "ok") =>
          /\ failed_queue' =
               SelectSeq(failed_queue,
                         LAMBDA q : q # [json |-> failedOrders[Found(lastReq'.orderId)]])
          /\ Len(failed_queue') >= Len(failed_queue) - 1
    ]_vars

\* a sweep has evicted one record of an order and left another record of the
\* same order in the queue
C30_Witness ==
  /\ lastReq # Idle /\ lastReq.op = "retry-failed"
  /\ \E k \in DOMAIN calls : calls[k].result = "ok"
  /\ \E j \in 1..Len(orderLogs) :
       /\ "status" \in DOMAIN orderLogs[j]
       /\ orderLogs[j].status = "success (auto-retried)"
       /\ \E i \in 1..Len(failed_queue) :
            failed_queue[i].json.shopifyOrderId = orderLogs[j].shopifyOrderId

\* the statuses a sweep or a resync writes
RetryStatuses ==
  {"success (auto-retried)", "success (manual retry)", "permanent fail (max retries)",
   "retrying (1/5)", "retrying (2/5)", "retrying (3/5)", "retrying (4/5)", "retrying (5/5)"}

\* the audit entry a but for its status
Frozen(a) == [f \in DOMAIN a \ {"status"} |-> a[f]]

\* C31: in every step but a restart the audit entries that exist stay in
\* their places with every field but status unchanged; an entry changes only
\* in a sweep or a resync, and then to a status that a retry writes.
C31_AuditFrame ==
  [][ ~RestartStep =>
        /\ Len(orderLogs') >= Len(orderLogs)
        /\ \A i \in 1..Len(orderLogs) :
             /\ Frozen(orderLogs'[i]) = Frozen(orderLogs[i])
             /\ orderLogs'[i] # orderLogs[i] =>
                  /\ SweepStep \/ ResyncStep
                  /\ "status" \in DOMAIN orderLogs'[i]
                  /\ orderLogs'[i].status \in RetryStatuses
    ]_vars

\* a resync has set the status of one of several audit entries
C31_Witness ==
  /\ lastReq.op = "resync" /\ lastResp.status = 200
  /\ Len(orderLogs) >= 2
  /\ \E j \in 1..Len(orderLogs) :
       /\ orderLogs[j].shopifyOrderId = lastReq.orderId
       /\ "status" \in DOMAIN orderLogs[j]
       /\ orderLogs[j].status = "success (manual retry)"

\* C32: no createSale call is made with a missing or an empty list of sale
\* lines, and no sale on the remote platform is without lines.
C32_NoEmptySale ==
  [][ /\ \A k \in 1..Len(calls') :
           calls'[k].fn = "createSale" =>
             calls'[k].saleLines.defined /\ calls'[k].saleLines.lines # << >>
      /\ \A j \in 1..Len(lsSales') : lsSales'[j].SaleLines # << >>
    ]_vars

\* the delivery handled in this step had its sale created
SaleCreated ==
  \E k \in 1..Len(calls') : calls'[k].fn = "createSale" /\ calls'[k].result = "ok"

\* C33: a delivery whose sale was created leaves no audit entry of its order
\* with status failed and no record of its order in the retry queue.
C33_CreatedNotFailed ==
  [][ (WebhookStep /\ SaleCreated) =>
        /\ \A j \in 1..Len(orderLogs') :
             orderLogs'[j].shopifyOrderId = lastReq'.req.order.id =>
               orderLogs'[j].status # "failed"
        /\ QueueCount(failed_queue', lastReq'.req.order.id) = 0
    ]_vars

\* an audit entry of the order says that a retry of this process lifetime
\* created its sale (these statuses are written in memory only)
RetriedOk(logs, id) ==
  \E j \in 1..Len(logs) :
    /\ logs[j].shopifyOrderId = id
    /\ "status" \in DOMAIN logs[j]
    /\ logs[j].status \in {"success (auto-retried)", "success (manual retry)"}

\* C34: no sweep and no resync creates a sale for an order for which a retry
\* of the same process lifetime has already created one.
C34_OneSalePerOrder ==
  [][ /\ SweepStep =>
          \A k \in 1..Len(calls') :
            calls'[k].result = "ok" =>
              ~RetriedOk(orderLogs, SweepSubmits[k].json.shopifyOrderId)
      /\ (ResyncStep /\ calls' # << >> /\ calls'[1].result = "ok") =>
          ~RetriedOk(orderLogs, lastReq'.orderId)
    ]_vars

\* C35: after a resync answered 200 the retry queue holds no record of the
\* order it named.
C35_ResyncClearsQueue ==
  [][ (ResyncStep /\ lastResp'.status = 200) =>
        QueueCount(failed_queue', lastReq'.orderId) = 0
    ]_vars

\* the step is the arrival of a webhook delivery
ArriveStep == lastReq = Idle /\ lastReq'.op = "webhook arrives"

\* deliveries of the order that are suspended
Proceeding(q, id) == { i \in 1..Len(q) : q[i].req.order.id = id }

\* C36: of the authenticated deliveries of one order id that are handled at
\* the same time one goes on to the readiness gate: a delivery that arrives
\* when the id is in processedOrders, also while the first one is suspended,
\* is answered 200 with no remote call and no change of state; one that
\* arrives when it is not puts the id there before it is suspended; no id
\* leaves processedOrders and no two suspended deliveries are of one order.
C36_OneProceeds ==
  [][ /\ processedOrders \subseteq processedOrders'
      /\ \A id \in processedOrders' : Cardinality(Proceeding(pending', id)) <= 1
      /\ (ArriveStep /\ Authentic(lastReq'.req)) =>
           IF lastReq'.req.order.id \in processedOrders
           THEN /\ lastResp' = [status |-> 200, body |-> "OK"]
                /\ calls' = << >>
                /\ UNCHANGED << progVars, credVars, remoteVars, clock, pending >>
           ELSE /\ lastReq'.req.order.id \in processedOrders'
                /\ Cardinality(Proceeding(pending', lastReq'.req.order.id)) = 1
    ]_vars

\* a second delivery of an order has been answered while the first one is
\* suspended at a lookup
C36_Witness ==
  /\ lastReq.op = "webhook arrives"
  /\ lastResp = [status |-> 200, body |-> "OK"]
  /\ \E i \in 1..Len(pending) :
       pending[i].req.order.id = lastReq.req.order.id /\ pending[i].at = "lookup"

\* C37: a sweep raises the retryCount of a queued record only when its
\* createSale call for that record sent a sale request to the remote
\* platform; a sweep that starts with no access token in memory raises none.
C37_CountsRemoteFailures ==
  [][ (SweepStep /\ Len(failed_queue) <= 10) =>
        \A i \in 1..Len(failed_queue) :
          (Failed(i) /\ InQueue(failed_queue', Raised(failed_queue[i]))) =>
            /\ calls'[CallIndex(i)].stat.requests >= 1
            /\ accessToken # 0
    ]_vars

\* C38: when sweeps are invoked again and again (so that each of them
\* returns) and no record is enqueued, the retry queue, however long, is
\* empty in the end.
C38_QueueDrains == []<>(lastReq.op = "retry-failed") => <>(failed_queue = << >>)

\* a queue of more than 10 records has been drained by sweeps
C38_Witness ==
  /\ lastReq.op = "retry-failed"
  /\ failed_queue = << >>
  /\ Len(order_history) > 10

\* C39: the in-memory failed list and the retry queue hold records of the
\* same order ids.
C39_SameOrders ==
  { failedOrders[i].shopifyOrderId : i \in 1..Len(failedOrders) }
    = { failed_queue[i].json.shopifyOrderId : i \in 1..Len(failed_queue) }

====
